---- MODULE Spec2Model ----
(***************************************************************************)
(* Backport orchestration engine of sqren/backport-cli.                    *)
(*                                                                         *)
(* Strings are modelled as sequences of one-character strings, so that     *)
(* slice, join, includes and the length of a string are what the code      *)
(* computes.  Promises are modelled by their state: "unstarted" (the       *)
(* handler was not called yet), "pending", "resolved", "rejected".         *)
(***************************************************************************)
EXTENDS Integers, Sequences, FiniteSets, TLC

\* ------------------------------------------------------------------------
\* Bounds of the model
\* ------------------------------------------------------------------------

\* number of target branches (versions) of a run
MaxVersions == 2

\* number of commits that are backported in a run
MaxCommits == 2

\* number of times the index is reported dirty while one conflict is resolved
MaxDirty == 1

\* longest commit list given to the pure naming functions
MaxNameCommits == 14

\* number of commits that only one of two compared commit lists selects
MaxOwnCommits == 2

\* longest revision id given to getReference
MaxShaLen == 8

\* longest commit list given to getPullRequestPayload
MaxPayloadCommits == 3

\* longest history the commits query of fetchCommitsByAuthor returns
MaxHistory == 2

\* number of commits that can be on the source branch when one is looked up
MaxSourceCommits == 5

\* number of lines a failed subprocess writes to stderr
MaxStderrLines == 3

\* number of runs of maybeSetupRepo on one repository folder
MaxRuns == 2

\* ------------------------------------------------------------------------
\* Strings
\* ------------------------------------------------------------------------

Min(a, b) == IF a < b THEN a ELSE b

\* String.prototype.slice(from, to) for 0 <= from <= to
Slice(s, from, to) == SubSeq(s, from + 1, Min(to, Len(s)))

RECURSIVE Join(_, _)
\* Array.prototype.join(sep)
Join(strs, sep) ==
  IF strs = <<>> THEN <<>>
  ELSE IF Len(strs) = 1 THEN strs[1]
  ELSE strs[1] \o sep \o Join(Tail(strs), sep)

DigitChar(d) == <<"0", "1", "2", "3", "4", "5", "6", "7", "8", "9">>[d + 1]

\* value of a decimal digit
DigitValue(ch) ==
  CHOOSE d \in 0..9 :
    ch = <<"0", "1", "2", "3", "4", "5", "6", "7", "8", "9">>[d + 1]

RECURSIVE ParseInt(_)
\* parseInt(digits, 10) for a non-empty string of decimal digits
ParseInt(digits) ==
  IF Len(digits) = 1 THEN DigitValue(digits[1])
  ELSE 10 * ParseInt(SubSeq(digits, 1, Len(digits) - 1)) +
       DigitValue(digits[Len(digits)])

RECURSIVE NumberToString(_)
\* `${n}` for a non-negative integer n
NumberToString(n) ==
  IF n < 10 THEN <<DigitChar(n)>>
  ELSE NumberToString(n \div 10) \o <<DigitChar(n % 10)>>

\* ------------------------------------------------------------------------
\* Commits (interface Commit: sha, message, pullRequest?)
\* ------------------------------------------------------------------------

\* value of an absent (undefined) pullRequest field
NoPullRequest == -1

\* JavaScript truthiness of commit.pullRequest (undefined and 0 are falsy)
Truthy(pullRequest) == pullRequest /= NoPullRequest /\ pullRequest /= 0

\* ------------------------------------------------------------------------
\* Naming (getReference, getBackportBranchName)
\* ------------------------------------------------------------------------

\* length of the short revision id: commit.sha.slice(0, 7)
ShortShaLen == 7

\* length the joined references are cut to: .slice(0, 200)
MaxRefLen == 200

\* a mutant of getReference: commit.pullRequest is not looked at
getReference_ShaOnly(commit, short) ==
  LET shortCommit == Slice(commit.sha, 0, ShortShaLen)
  IN  IF short
      THEN <<"c", "o", "m", "m", "i", "t", "-">> \o shortCommit
      ELSE shortCommit

getReference(commit, short) ==
  IF Truthy(commit.pullRequest)
  THEN IF short
       THEN <<"p", "r", "-">> \o NumberToString(commit.pullRequest)
       ELSE <<"#">> \o NumberToString(commit.pullRequest)
  ELSE LET shortCommit == Slice(commit.sha, 0, ShortShaLen)
       IN  IF short
           THEN <<"c", "o", "m", "m", "i", "t", "-">> \o shortCommit
           ELSE shortCommit

getReferenceLong(commit) == getReference(commit, FALSE)

getReferenceShort(commit) == getReference(commit, TRUE)

\* commits.map(commit => getReferenceShort(commit)).join('_')
JoinedShortRefs(commits) ==
  Join([i \in DOMAIN commits |-> getReferenceShort(commits[i])], <<"_">>)

\* the slice of the joined references without the cut (a dropped .slice)
RefValues_NoSlice(commits) == JoinedShortRefs(commits)

\* the slice of the joined references, cut too early
RefValues_CutEarly(commits) == Slice(JoinedShortRefs(commits), 0, 10)

\* .map(...).join('_').slice(0, 200)
RefValues(commits) == Slice(JoinedShortRefs(commits), 0, MaxRefLen)

BackportPrefix == <<"b", "a", "c", "k", "p", "o", "r", "t", "/">>

getBackportBranchName(version, commits) ==
  BackportPrefix \o version \o <<"/">> \o RefValues(commits)

\* ------------------------------------------------------------------------
\* Inputs of a run (doBackportVersions({owner, repoName, commits, versions,
\* username, labels}))
\* ------------------------------------------------------------------------

Username == <<"s", "q", "r", "e", "n">>

\* options.repoOwner: the owner of the upstream repository
RepoOwner == <<"e", "l", "a", "s", "t", "i", "c">>

\* options.fork ? options.username : options.repoOwner
getRemoteName(isFork) == IF isFork THEN Username ELSE RepoOwner

\* versions: the target branches "6.1", "6.2", ...
Versions == [t \in 1..MaxVersions |-> <<"6", ".">> \o NumberToString(t)]

Tasks == 1..MaxVersions

\* the pull request GitHub knows for the i-th selected commit: the odd ones
\* were merged through pull request 1000 * i, the even ones were pushed
\* directly
PullRequestOf(i) == IF i % 2 = 1 THEN 1000 * i ELSE NoPullRequest

\* commits: the selected commits, before withPullRequest
Commits ==
  [i \in 1..MaxCommits |->
    [sha |-> <<"m", "y", "S", "h", "a">> \o NumberToString(i),
     message |->
       <<"f", "i", "x">> \o NumberToString(i) \o
       (IF Truthy(PullRequestOf(i))
        THEN <<" ", "(", "#">> \o NumberToString(PullRequestOf(i)) \o <<")">>
        ELSE <<>>)]]

CommitIds == 1..MaxCommits

\* ------------------------------------------------------------------------
\* Promises and sequentially(items, handler)
\* ------------------------------------------------------------------------

\* a mutant of sequentially: every handler is called at once (items.map)
SeqReady_AllAtOnce(states, k) == TRUE

\* items.reduce((p, item) => p.then(() => handler(item)), Promise.resolve()):
\* the handler of item k is called when the promise of item k-1 resolved
SeqReady(states, k) == IF k = 1 THEN TRUE ELSE states[k - 1] = "resolved"

\* a mutant of sequentially: the promise it returns does not wait for the
\* handlers (the chain is not returned)
SeqSettled_Eager(states) == "resolved"

\* state of the promise sequentially(items, handler) returns
SeqSettled(states) ==
  IF \E k \in DOMAIN states : states[k] = "rejected" THEN "rejected"
  ELSE IF \A k \in DOMAIN states : states[k] = "resolved" THEN "resolved"
  ELSE "pending"

\* ------------------------------------------------------------------------
\* Errors
\* ------------------------------------------------------------------------

GITHUB_ERROR == "GITHUB_ERROR"

NoError == [name |-> "none", code |-> "none", cmd |-> <<>>, cause |-> "none"]

\* the failure of a GitHub API call: an error response of the API, which
\* lib/github throws with code GITHUB_ERROR
ApiErrors ==
  {[name |-> "GithubError", code |-> GITHUB_ERROR, cmd |-> <<>>, cause |-> "api"]}

\* the error of a failed subprocess: it carries the whole command line
ExecError(cmd, cause) ==
  [name |-> "ExecError", code |-> "none", cmd |-> cmd, cause |-> cause]

\* a mutant of handleErrors: the error is thrown again
handleErrors_Rethrow(e) == [settles |-> "rejected", logged |-> TRUE]

\* handleErrors(e): returns for every error; only errors whose code is not
\* GITHUB_ERROR are printed
handleErrors(e) ==
  [settles |-> "resolved", logged |-> e.code /= GITHUB_ERROR]

\* ------------------------------------------------------------------------
\* Subprocess commands (a command line is the sequence of the commands that
\* are joined by &&)
\* ------------------------------------------------------------------------

\* git fetch <owner> <branch>:<branch> --force && git cherry-pick <sha>
CherrypickCmd == <<"git fetch", "git cherry-pick">>

\* the ways the cherry-pick command line fails: the forced fetch fails, or
\* the cherry-pick stops on a merge conflict
CherrypickFailures == {"fetchFailed", "conflict"}

\* cmd.includes(text), for a text that is the start of a command
Includes(cmd, text) == \E k \in DOMAIN cmd : cmd[k] = text

isCherrypickConflict(e) == Includes(e.cmd, "git cherry-pick")

\* prompts.confirmConflictResolved(): resolves when the user confirms and
\* rejects with "Aborted" when the user declines
confirmConflictResolved(answer) ==
  IF answer
  THEN [settles |-> "resolved", error |-> NoError]
  ELSE [settles |-> "rejected",
        error |-> [name |-> "Aborted", code |-> "none", cmd |-> <<>>,
                   cause |-> "declined"]]

\* ------------------------------------------------------------------------
\* Pull request payload (getPullRequestPayload)
\* ------------------------------------------------------------------------

\* String.prototype.indexOf(sub): 0-based, -1 when sub does not occur
IndexOf(s, sub) ==
  LET hits == {i \in 0..(Len(s) - Len(sub)) :
                 SubSeq(s, i + 1, i + Len(sub)) = sub}
  IN  IF hits = {} THEN -1
      ELSE CHOOSE i \in hits : \A j \in hits : i <= j

\* String.prototype.replace(sub, rep) with a string pattern: the first
\* occurrence only
Replace(s, sub, rep) ==
  LET i == IndexOf(s, sub)
  IN  IF i = -1 THEN s
      ELSE SubSeq(s, 1, i) \o rep \o SubSeq(s, i + Len(sub) + 1, Len(s))

\* length the joined commit messages are cut to: .slice(0, 200)
MaxTitleLen == 200

\* ` - ${commit.message.replace(`(${ref})`, '')} (${ref})`
CommitRefLine(commit) ==
  LET ref == getReferenceLong(commit)
  IN  <<" ", "-", " ">> \o
      Replace(commit.message, <<"(">> \o ref \o <<")">>, <<>>) \o
      <<" ", "(">> \o ref \o <<")">>

getPullRequestPayload(version, commits, username) ==
  LET backportBranchName == getBackportBranchName(version, commits)
      commitRefs ==
        Join([i \in DOMAIN commits |-> CommitRefLine(commits[i])], <<"\n">>)
      commitMessages ==
        Slice(Join([i \in DOMAIN commits |-> commits[i].message],
                   <<" ", "|", " ">>), 0, MaxTitleLen)
  IN  [title |-> <<"[">> \o version \o <<"]", " ">> \o commitMessages,
       body |-> <<"B", "a", "c", "k", "p", "o", "r", "t", "s", " ", "t", "h",
                  "e", " ", "f", "o", "l", "l", "o", "w", "i", "n", "g", " ",
                  "c", "o", "m", "m", "i", "t", "s", " ", "t", "o", " ">> \o
                version \o <<":", "\n">> \o commitRefs,
       head |-> username \o <<":">> \o backportBranchName,
       base |-> version]

NoPayload == [title |-> <<>>, body |-> <<>>, head |-> <<>>, base |-> <<>>]

\* number GitHub gives the pull request that the task of target t creates
NewPullNumber(t) == 1336 + t

\* ------------------------------------------------------------------------
\* State
\* ------------------------------------------------------------------------

VARIABLES
  labels,    \* options.labels
  task,      \* per target branch: the state of its task (see InitTask)
  workdir,   \* the one working copy: checked-out branch, commits applied
  fnVersion, \* input of the pure naming functions: target branch
  fnCommits, \* input of the pure naming functions: commits
  fnName,    \* getBackportBranchName(fnVersion, fnCommits)
  fork,      \* options.fork
  fnCommits2, \* a second commit list, for the same target branch
  fnName2,   \* getBackportBranchName(fnVersion, fnCommits2)
  fnPayload, \* getPullRequestPayload(fnVersion, fnCommits, Username)
  fnRef,     \* a commit and its references (see InitRef)
  fetch,     \* fetchCommitsByAuthor: options, response, result
  bySha,     \* getCommitBySha: source branch, requested sha, result
  git,       \* a subprocess outcome and what the git service makes of it
  setup,     \* maybeSetupRepo: the repository folder and the run (InitSetup)
  lookup     \* withPullRequest: the commit objects and the lists of them

vars ==
  <<labels, task, workdir, fnVersion, fnCommits, fnName, fork, fnCommits2,
    fnName2, fnPayload, fnRef, fetch, bySha, git, setup, lookup>>

runVars == <<labels, task, workdir, fork>>

\* the variables of the git service and of maybeSetupRepo
svcVars == <<git, setup, lookup>>

\* their values while the services are not used
SvcIdle ==
  /\ git = <<>>
  /\ setup = <<>>
  /\ lookup = <<>>

fnVars ==
  <<fnVersion, fnCommits, fnName, fnCommits2, fnName2, fnPayload, fnRef,
    fetch, bySha, svcVars>>

\* the variables the naming of one commit list leaves alone
otherFnVars ==
  <<fnCommits2, fnName2, fnPayload, fnRef, fetch, bySha, svcVars>>

\* the values of these variables while the functions are not applied
OtherFnIdle ==
  /\ fnCommits2 = <<>>
  /\ fnName2 = <<>>
  /\ fnPayload = NoPayload
  /\ fnRef = <<>>
  /\ fetch = <<>>
  /\ bySha = <<>>
  /\ SvcIdle

InitTask ==
  [pc |-> "NotStarted",        \* phase of doBackportVersion
   promise |-> "unstarted",    \* promise the handler of the version returns
   pending |-> {},             \* getPullRequestByCommit calls in flight
   fetched |-> {},             \* commits whose lookup resolved
   commits |-> <<>>,           \* commitsWithPullRequest
   branch |-> <<>>,            \* backportBranchName
   pick |-> [i \in CommitIds |-> "unstarted"], \* cherrypickAndConfirm
   pickCalls |-> [i \in CommitIds |-> 0],      \* cherrypick(sha) calls
   resetCalls |-> 0,           \* resetAndPullMaster calls
   checkoutCalls |-> 0,        \* createAndCheckoutBranch calls
   pushCalls |-> 0,            \* push calls
   prCalls |-> 0,              \* github.createPullRequest calls
   labelCalls |-> 0,           \* github.addLabels calls
   prompts |-> 0,              \* confirmConflictResolved calls, and
   dirty |-> 0,                \* isIndexDirty results that were true, since
                               \* the catch last called confirmResolvedRecursive
   pickErr |-> "none",         \* cause of the failure that is being resolved
   lastCheck |-> "none",       \* last isIndexDirty result
   lastAnswer |-> "none",      \* last answer of the user to the prompt
   pushed |-> <<>>,            \* branch that was pushed
   pushedTo |-> <<>>,          \* remote the branch was pushed to
   payload |-> NoPayload,      \* payload given to createPullRequest
   res |-> 0,                  \* res.data.number of the created pull request
   labelled |-> 0,             \* pull request number given to addLabels
   error |-> NoError,          \* error the task was rejected with
   failedIn |-> "none",        \* phase the task failed in
   logged |-> FALSE]           \* console.error(e) was called

CleanWorkdir == [branch |-> <<"m", "a", "s", "t", "e", "r">>, applied |-> <<>>]

\* the options of a run but options.fork, and the state before the run
InitRun ==
  /\ labels \in {<<>>, <<"backport">>}
  /\ task = [t \in Tasks |-> InitTask]
  /\ workdir = CleanWorkdir
  /\ fnVersion = <<>>
  /\ fnCommits = <<>>
  /\ fnName = <<>>
  /\ OtherFnIdle

\* a run against the fork of the user
Init ==
  /\ InitRun
  /\ fork = TRUE

\* promises of the handlers of the versions, in order
Promises == [t \in Tasks |-> task[t].promise]

\* .catch(handleErrors): the task is rejected with e in the given phase
Failed(rec, e, phase) ==
  LET h == handleErrors(e)
  IN  [rec EXCEPT !.pc = "Failed", !.error = e, !.failedIn = phase,
                  !.promise = h.settles, !.logged = h.logged]

\* Object.assign({}, commit, { pullRequest }) for every commit
commitsWithPullRequest ==
  [i \in CommitIds |->
    [sha |-> Commits[i].sha, message |-> Commits[i].message,
     pullRequest |-> PullRequestOf(i)]]

\* ------------------------------------------------------------------------
\* doBackportVersions: one task per version
\* ------------------------------------------------------------------------

\* sequentially calls the handler of version t: withPullRequest issues one
\* getPullRequestByCommit call per commit, all at once
StartTask(t) ==
  /\ task[t].pc = "NotStarted"
  /\ SeqReady(Promises, t)
  /\ task' = [task EXCEPT ![t] =
       [@ EXCEPT !.pc = "Lookup", !.promise = "pending",
                 !.pending = CommitIds]]
  /\ UNCHANGED <<labels, fork, workdir, fnVars>>

\* a getPullRequestByCommit call resolves; when it is the last one,
\* Promise.all resolves and doBackportVersion starts: it derives the branch
\* name and calls resetAndPullMaster
LookupResolves(t, i) ==
  /\ i \in task[t].pending
  /\ LET rec == [task[t] EXCEPT !.pending = @ \ {i}]
     IN  task' = [task EXCEPT ![t] =
           IF rec.pc /= "Lookup" THEN rec
           ELSE IF rec.fetched \cup {i} /= CommitIds
           THEN [rec EXCEPT !.fetched = @ \cup {i}]
           ELSE [rec EXCEPT
                   !.fetched = CommitIds,
                   !.commits = commitsWithPullRequest,
                   !.branch = getBackportBranchName(Versions[t],
                                                    commitsWithPullRequest),
                   !.pc = "Reset",
                   !.resetCalls = @ + 1]]
  /\ UNCHANGED <<labels, fork, workdir, fnVars>>

\* a getPullRequestByCommit call rejects: Promise.all rejects at once, the
\* other calls stay in flight
LookupRejects(t, i, e) ==
  /\ i \in task[t].pending
  /\ LET rec == [task[t] EXCEPT !.pending = @ \ {i}]
     IN  task' = [task EXCEPT ![t] =
           IF rec.pc /= "Lookup" THEN rec
           ELSE Failed([rec EXCEPT !.fetched = {}], e, "Lookup")]
  /\ UNCHANGED <<labels, fork, workdir, fnVars>>

\* ------------------------------------------------------------------------
\* doBackportVersion: branch setup
\* ------------------------------------------------------------------------

\* resetAndPullMaster resolves, createAndCheckoutBranch is called
ResetResolves(t) ==
  /\ task[t].pc = "Reset"
  /\ task' = [task EXCEPT ![t] =
       [@ EXCEPT !.pc = "Checkout", !.checkoutCalls = @ + 1]]
  /\ workdir' = CleanWorkdir
  /\ UNCHANGED <<labels, fork, fnVars>>

ResetRejects(t) ==
  /\ task[t].pc = "Reset"
  /\ task' = [task EXCEPT ![t] =
       Failed(@, ExecError(<<"git reset">>, "resetFailed"), "BranchSetup")]
  /\ UNCHANGED <<labels, fork, workdir, fnVars>>

\* createAndCheckoutBranch resolves: sequentially(commits, ...) starts
CheckoutResolves(t) ==
  /\ task[t].pc = "Checkout"
  /\ task' = [task EXCEPT ![t] = [@ EXCEPT !.pc = "CherryPicking"]]
  /\ workdir' = [branch |-> task[t].branch, applied |-> <<>>]
  /\ UNCHANGED <<labels, fork, fnVars>>

\* createAndCheckoutBranch rejects (e.g. the target branch does not exist)
CheckoutRejects(t) ==
  /\ task[t].pc = "Checkout"
  /\ task' = [task EXCEPT ![t] =
       Failed(@, ExecError(<<"git checkout">>, "invalidBranch"),
              "BranchSetup")]
  /\ UNCHANGED <<labels, fork, workdir, fnVars>>

\* ------------------------------------------------------------------------
\* doBackportVersion: cherry-picking (sequentially over the commits,
\* cherrypickAndConfirm, confirmResolvedRecursive)
\* ------------------------------------------------------------------------

\* sequentially calls the handler of commit i: cherrypick(sha) is started
StartCherrypick(t, i) ==
  /\ task[t].pc = "CherryPicking"
  /\ task[t].pick[i] = "unstarted"
  /\ SeqReady(task[t].pick, i)
  /\ task' = [task EXCEPT ![t] =
       [@ EXCEPT !.pick[i] = "pending", !.pickCalls[i] = @ + 1]]
  /\ UNCHANGED <<labels, fork, workdir, fnVars>>

\* the cherry-pick command line succeeds
CherrypickResolves(t, i) ==
  /\ task[t].pick[i] = "pending"
  /\ task' = [task EXCEPT ![t] = [@ EXCEPT !.pick[i] = "resolved"]]
  /\ workdir' = [workdir EXCEPT !.applied = Append(@, task[t].commits[i].sha)]
  /\ UNCHANGED <<labels, fork, fnVars>>

\* the cherry-pick command line fails: the catch of cherrypickAndConfirm
\* rethrows, or enters confirmResolvedRecursive, which prompts the user
CherrypickRejects(t, i, cause) ==
  /\ task[t].pick[i] = "pending"
  /\ LET e == ExecError(CherrypickCmd, cause)
     IN  task' = [task EXCEPT ![t] =
           IF ~isCherrypickConflict(e)
           THEN Failed([@ EXCEPT !.pick[i] = "rejected", !.pickErr = cause],
                       e, "CherryPicking")
           ELSE [@ EXCEPT !.pick[i] = "prompt", !.pickErr = cause,
                          !.prompts = 1, !.dirty = 0, !.lastCheck = "none",
                          !.lastAnswer = "none"]]
  /\ UNCHANGED <<labels, fork, workdir, fnVars>>

\* a mutant of the chain in confirmResolvedRecursive: isIndexDirty is
\* called whether the prompt resolved or rejected
AfterPrompt_Always(p) == "check"

\* confirmConflictResolved().then(() => isIndexDirty(...)): isIndexDirty is
\* called when the prompt resolved, a rejection is passed on
AfterPrompt(p) == IF p.settles = "resolved" THEN "check" ELSE "rejected"

\* the user answers the prompt: on a confirmation isIndexDirty is called,
\* on a decline the rejection of the prompt fails the task
AnswerPrompt(t, i, answer) ==
  /\ task[t].pick[i] = "prompt"
  /\ LET p == confirmConflictResolved(answer)
         rec == [task[t] EXCEPT
                   !.lastAnswer = IF answer THEN "confirmed" ELSE "declined"]
     IN  task' = [task EXCEPT ![t] =
           IF AfterPrompt(p) = "check"
           THEN [rec EXCEPT !.pick[i] = "check"]
           ELSE Failed([rec EXCEPT !.pick[i] = "rejected"], p.error,
                       "CherryPicking")]
  /\ UNCHANGED <<labels, fork, workdir, fnVars>>

\* a mutant of confirmResolvedRecursive: the test of isDirty is inverted
confirmResolvedNext_Inverted(isDirty) ==
  IF isDirty THEN "resolved" ELSE "prompt"

\* isDirty => (isDirty ? confirmResolvedRecursive(owner, repoName) : null)
confirmResolvedNext(isDirty) == IF isDirty THEN "prompt" ELSE "resolved"

\* isIndexDirty resolves: when the index is dirty confirmResolvedRecursive
\* is called again and prompts the user, else cherrypickAndConfirm resolves
\* (the user has committed the resolved cherry-pick)
IndexChecked(t, i, isDirty) ==
  /\ task[t].pick[i] = "check"
  /\ isDirty => task[t].dirty < MaxDirty
  /\ LET rec == [task[t] EXCEPT
                   !.dirty = IF isDirty THEN @ + 1 ELSE @,
                   !.lastCheck = IF isDirty THEN "dirty" ELSE "clean"]
     IN  IF confirmResolvedNext(isDirty) = "prompt"
         THEN /\ task' = [task EXCEPT ![t] =
                   [rec EXCEPT !.pick[i] = "prompt", !.prompts = @ + 1]]
              /\ UNCHANGED workdir
         ELSE /\ task' = [task EXCEPT ![t] =
                   [rec EXCEPT !.pick[i] = "resolved", !.pickErr = "none"]]
              /\ workdir' = [workdir EXCEPT
                   !.applied = Append(@, task[t].commits[i].sha)]
  /\ UNCHANGED <<labels, fork, fnVars>>

\* ------------------------------------------------------------------------
\* doBackportVersion: push, pull request, labels
\* ------------------------------------------------------------------------

\* sequentially(commits, ...) resolved: push is called
StartPush(t) ==
  /\ task[t].pc = "CherryPicking"
  /\ SeqSettled(task[t].pick) = "resolved"
  /\ task' = [task EXCEPT ![t] = [@ EXCEPT !.pc = "Push", !.pushCalls = @ + 1]]
  /\ UNCHANGED <<labels, fork, workdir, fnVars>>

\* push resolves: the payload is built and createPullRequest is called
PushResolves(t) ==
  /\ task[t].pc = "Push"
  /\ task' = [task EXCEPT ![t] =
       [@ EXCEPT !.pc = "CreatePullRequest",
                 !.pushed = task[t].branch,
                 !.pushedTo = getRemoteName(fork),
                 !.payload = getPullRequestPayload(Versions[t],
                                                   task[t].commits, Username),
                 !.prCalls = @ + 1]]
  /\ UNCHANGED <<labels, fork, workdir, fnVars>>

PushRejects(t) ==
  /\ task[t].pc = "Push"
  /\ task' = [task EXCEPT ![t] =
       Failed(@, ExecError(<<"git push">>, "pushFailed"), "Push")]
  /\ UNCHANGED <<labels, fork, workdir, fnVars>>

\* a mutant of the step after createPullRequest: addLabels is called
\* whatever the labels are
CreatePullRequestResolves_AlwaysLabels(t) ==
  /\ task[t].pc = "CreatePullRequest"
  /\ task' = [task EXCEPT ![t] =
       [@ EXCEPT !.res = NewPullNumber(t), !.pc = "AddLabels",
                 !.labelCalls = @ + 1, !.labelled = NewPullNumber(t)]]
  /\ UNCHANGED <<labels, fork, workdir, fnVars>>

\* the handler of the version resolves with res and the link is printed
Done(rec) == [rec EXCEPT !.pc = "Done", !.promise = "resolved"]

\* createPullRequest resolves with res: addLabels is called when labels are
\* configured, else the task resolves with res
CreatePullRequestResolves(t) ==
  /\ task[t].pc = "CreatePullRequest"
  /\ task' = [task EXCEPT ![t] =
       LET rec == [@ EXCEPT !.res = NewPullNumber(t)]
       IN  IF Len(labels) > 0
           THEN [rec EXCEPT !.pc = "AddLabels", !.labelCalls = @ + 1,
                            !.labelled = rec.res]
           ELSE Done(rec)]
  /\ UNCHANGED <<labels, fork, workdir, fnVars>>

CreatePullRequestRejects(t, e) ==
  /\ task[t].pc = "CreatePullRequest"
  /\ task' = [task EXCEPT ![t] = Failed(@, e, "CreatePullRequest")]
  /\ UNCHANGED <<labels, fork, workdir, fnVars>>

\* addLabels resolves: the task resolves with res
AddLabelsResolves(t) ==
  /\ task[t].pc = "AddLabels"
  /\ task' = [task EXCEPT ![t] = Done(@)]
  /\ UNCHANGED <<labels, fork, workdir, fnVars>>

\* addLabels rejects: .then(() => res) is skipped, the task is rejected
AddLabelsRejects(t, e) ==
  /\ task[t].pc = "AddLabels"
  /\ task' = [task EXCEPT ![t] = Failed(@, e, "AddLabels")]
  /\ UNCHANGED <<labels, fork, workdir, fnVars>>

Next ==
  \/ \E t \in Tasks : StartTask(t)
  \/ \E t \in Tasks, i \in CommitIds : LookupResolves(t, i)
  \/ \E t \in Tasks, i \in CommitIds, e \in ApiErrors : LookupRejects(t, i, e)
  \/ \E t \in Tasks : ResetResolves(t)
  \/ \E t \in Tasks : ResetRejects(t)
  \/ \E t \in Tasks : CheckoutResolves(t)
  \/ \E t \in Tasks : CheckoutRejects(t)
  \/ \E t \in Tasks, i \in CommitIds : StartCherrypick(t, i)
  \/ \E t \in Tasks, i \in CommitIds : CherrypickResolves(t, i)
  \/ \E t \in Tasks, i \in CommitIds, cause \in CherrypickFailures :
       CherrypickRejects(t, i, cause)
  \/ \E t \in Tasks, i \in CommitIds, answer \in BOOLEAN :
       AnswerPrompt(t, i, answer)
  \/ \E t \in Tasks, i \in CommitIds, isDirty \in BOOLEAN :
       IndexChecked(t, i, isDirty)
  \/ \E t \in Tasks : StartPush(t)
  \/ \E t \in Tasks : PushResolves(t)
  \/ \E t \in Tasks : PushRejects(t)
  \/ \E t \in Tasks : CreatePullRequestResolves(t)
  \/ \E t \in Tasks, e \in ApiErrors : CreatePullRequestRejects(t, e)
  \/ \E t \in Tasks : AddLabelsResolves(t)
  \/ \E t \in Tasks, e \in ApiErrors : AddLabelsRejects(t, e)

Spec == Init /\ [][Next]_vars

\* the user answers a prompt with a confirmation in the end, and a pending
\* isIndexDirty reports a clean index in the end when it can again and again
ConfirmingUser ==
  /\ WF_vars(\E t \in Tasks, i \in CommitIds : AnswerPrompt(t, i, TRUE))
  /\ SF_vars(\E t \in Tasks, i \in CommitIds : IndexChecked(t, i, FALSE))

\* the steps of the task of target t
TaskNext(t) ==
  \/ StartTask(t)
  \/ \E i \in CommitIds : LookupResolves(t, i)
  \/ \E i \in CommitIds, e \in ApiErrors : LookupRejects(t, i, e)
  \/ ResetResolves(t)
  \/ ResetRejects(t)
  \/ CheckoutResolves(t)
  \/ CheckoutRejects(t)
  \/ \E i \in CommitIds : StartCherrypick(t, i)
  \/ \E i \in CommitIds : CherrypickResolves(t, i)
  \/ \E i \in CommitIds, cause \in CherrypickFailures :
       CherrypickRejects(t, i, cause)
  \/ \E i \in CommitIds, answer \in BOOLEAN : AnswerPrompt(t, i, answer)
  \/ \E i \in CommitIds, isDirty \in BOOLEAN : IndexChecked(t, i, isDirty)
  \/ StartPush(t)
  \/ PushResolves(t)
  \/ PushRejects(t)
  \/ CreatePullRequestResolves(t)
  \/ \E e \in ApiErrors : CreatePullRequestRejects(t, e)
  \/ AddLabelsResolves(t)
  \/ \E e \in ApiErrors : AddLabelsRejects(t, e)

\* a run whose list of versions has one entry, the first target branch
NextOneVersion == TaskNext(1)

\* a run for one target branch in which the user keeps confirming and the
\* index gets clean
SpecConfirming == Init /\ [][NextOneVersion]_vars /\ ConfirmingUser

\* a run with either value of options.fork
InitFork ==
  /\ InitRun
  /\ fork \in BOOLEAN

SpecFork == InitFork /\ [][Next]_vars

\* ------------------------------------------------------------------------
\* The pure naming functions, applied to commit lists of any length
\* ------------------------------------------------------------------------

\* commits the lists are built from: one merged through pull request 1000,
\* one pushed directly
NamePool ==
  {[sha |-> <<"m", "y", "S", "h", "a">>,
    message |-> <<"f", "i", "x">>, pullRequest |-> 1000],
   [sha |-> <<"a", "b", "c", "d", "e", "f", "0", "1", "2", "3">>,
    message |-> <<"f", "i", "x">>, pullRequest |-> NoPullRequest]}

\* the state of a run that was not started
RunIdle ==
  /\ labels = <<>>
  /\ fork = TRUE
  /\ task = [t \in Tasks |-> InitTask]
  /\ workdir = CleanWorkdir

InitName ==
  /\ RunIdle
  /\ OtherFnIdle
  /\ fnVersion \in {Versions[t] : t \in Tasks}
  /\ fnCommits = <<>>
  /\ fnName = getBackportBranchName(fnVersion, fnCommits)

\* one more commit is selected and the branch name is derived
NameCommits(c) ==
  /\ Len(fnCommits) < MaxNameCommits
  /\ fnCommits' = Append(fnCommits, c)
  /\ fnName' = getBackportBranchName(fnVersion, fnCommits')
  /\ UNCHANGED <<fnVersion, runVars, otherFnVars>>

NextName == \E c \in NamePool : NameCommits(c)

SpecName == InitName /\ [][NextName]_vars

\* ------------------------------------------------------------------------
\* The branch names of two commit lists for the same target branch
\* ------------------------------------------------------------------------

\* the k-th commit of a run of commits that were pushed directly
DirectCommit(k) ==
  [sha |-> <<"a", "b", "c", "d", "e">> \o
           (IF k < 10 THEN <<"0">> ELSE <<>>) \o NumberToString(k),
   message |-> <<"f", "i", "x">>, pullRequest |-> NoPullRequest]

\* commits that one list selects and the other may not: two commits that
\* were merged through pull request 1000, one pushed directly
PairPool ==
  {[sha |-> <<"m", "y", "S", "h", "a">>,
    message |-> <<"f", "i", "x">>, pullRequest |-> 1000],
   [sha |-> <<"m", "y", "S", "h", "a", "2">>,
    message |-> <<"f", "i", "x">>, pullRequest |-> 1000],
   [sha |-> <<"a", "b", "c", "d", "e", "f", "0", "1", "2", "3">>,
    message |-> <<"f", "i", "x">>, pullRequest |-> NoPullRequest]}

\* number of commits at the start of a list that both lists select
SharedLen(commits) ==
  Cardinality({k \in DOMAIN commits : commits[k] = DirectCommit(k)})

InitPair ==
  /\ RunIdle
  /\ fnVersion \in {Versions[t] : t \in Tasks}
  /\ fnCommits = <<>>
  /\ fnName = getBackportBranchName(fnVersion, fnCommits)
  /\ fnCommits2 = <<>>
  /\ fnName2 = getBackportBranchName(fnVersion, fnCommits2)
  /\ fnPayload = NoPayload
  /\ fnRef = <<>>
  /\ fetch = <<>>
  /\ bySha = <<>>
  /\ SvcIdle

\* both lists select one more commit of the run of direct commits
PairShared ==
  /\ fnCommits = fnCommits2
  /\ SharedLen(fnCommits) = Len(fnCommits)
  /\ Len(fnCommits) < MaxNameCommits
  /\ fnCommits' = Append(fnCommits, DirectCommit(Len(fnCommits) + 1))
  /\ fnCommits2' = fnCommits'
  /\ fnName' = getBackportBranchName(fnVersion, fnCommits')
  /\ fnName2' = getBackportBranchName(fnVersion, fnCommits2')
  /\ UNCHANGED <<fnVersion, runVars, fnPayload, fnRef, fetch, bySha, svcVars>>

\* the first list selects one more commit
PairFirst(c) ==
  /\ Len(fnCommits) - SharedLen(fnCommits) < MaxOwnCommits
  /\ fnCommits' = Append(fnCommits, c)
  /\ fnName' = getBackportBranchName(fnVersion, fnCommits')
  /\ UNCHANGED <<fnVersion, runVars, fnCommits2, fnName2, fnPayload, fnRef,
                 fetch, bySha, svcVars>>

\* the second list selects one more commit
PairSecond(c) ==
  /\ Len(fnCommits2) - SharedLen(fnCommits2) < MaxOwnCommits
  /\ fnCommits2' = Append(fnCommits2, c)
  /\ fnName2' = getBackportBranchName(fnVersion, fnCommits2')
  /\ UNCHANGED <<fnVersion, runVars, fnCommits, fnName, fnPayload, fnRef,
                 fetch, bySha, svcVars>>

NextPair ==
  \/ PairShared
  \/ \E c \in PairPool : PairFirst(c)
  \/ \E c \in PairPool : PairSecond(c)

SpecPair == InitPair /\ [][NextPair]_vars

\* ------------------------------------------------------------------------
\* The references of one commit
\* ------------------------------------------------------------------------

\* commit.pullRequest: absent, or the number of a pull request
RefPullRequests == {NoPullRequest, 7, 1000}

\* characters of the revision ids
ShaChars == {"a", "0"}

\* the short and the long reference of a commit
References(commit) ==
  [commit |-> commit,
   short |-> getReferenceShort(commit),
   long |-> getReferenceLong(commit)]

InitRef ==
  /\ RunIdle
  /\ fnVersion = <<>>
  /\ fnCommits = <<>>
  /\ fnName = <<>>
  /\ fnCommits2 = <<>>
  /\ fnName2 = <<>>
  /\ fnPayload = NoPayload
  /\ \E ch \in ShaChars, pr \in RefPullRequests :
       fnRef = References([sha |-> <<ch>>, message |-> <<"f", "i", "x">>,
                           pullRequest |-> pr])
  /\ fetch = <<>>
  /\ bySha = <<>>
  /\ SvcIdle

\* the references of the commit whose revision id is one character longer
RefLongerSha(ch) ==
  /\ Len(fnRef.commit.sha) < MaxShaLen
  /\ fnRef' = References([fnRef.commit EXCEPT !.sha = Append(@, ch)])
  /\ UNCHANGED <<fnVersion, fnCommits, fnName, runVars, fnCommits2,
                 fnName2, fnPayload, fetch, bySha, svcVars>>

NextRef == \E ch \in ShaChars : RefLongerSha(ch)

SpecRef == InitRef /\ [][NextRef]_vars

\* ------------------------------------------------------------------------
\* The payload of the pull request of one commit list
\* ------------------------------------------------------------------------

\* a commit message of one long line
LongMessage == [k \in 1..90 |-> "x"]

\* the commits of the tests (a message that ends with the reference of the
\* pull request, or of the commit), a commit whose message has a body below
\* its first line, and a commit with a long message
PayloadPool ==
  {[sha |-> <<"m", "y", "S", "h", "a">>,
    message |-> <<"m", "y", "C", "o", "m", "m", "i", "t", "M", "e", "s", "s",
                  "a", "g", "e", " ", "(", "#", "1", "0", "0", "0", ")">>,
    pullRequest |-> 1000],
   [sha |-> <<"m", "y", "S", "h", "a">>,
    message |-> <<"m", "y", "C", "o", "m", "m", "i", "t", "M", "e", "s", "s",
                  "a", "g", "e", " ", "(", "m", "y", "S", "h", "a", ")">>,
    pullRequest |-> NoPullRequest],
   [sha |-> <<"a", "b", "c", "d", "e", "f", "0", "1", "2", "3">>,
    message |-> <<"f", "i", "x", "\n", "\n", "w", "h", "y">>,
    pullRequest |-> NoPullRequest],
   [sha |-> <<"m", "y", "S", "h", "a", "2">>,
    message |-> LongMessage,
    pullRequest |-> 2000]}

InitPayload ==
  /\ RunIdle
  /\ fnVersion \in {Versions[t] : t \in Tasks}
  /\ \E c \in PayloadPool : fnCommits = <<c>>
  /\ fnName = <<>>
  /\ fnCommits2 = <<>>
  /\ fnName2 = <<>>
  /\ fnPayload = getPullRequestPayload(fnVersion, fnCommits, Username)
  /\ fnRef = <<>>
  /\ fetch = <<>>
  /\ bySha = <<>>
  /\ SvcIdle

\* one more commit is backported and the payload is built
PayloadCommits(c) ==
  /\ Len(fnCommits) < MaxPayloadCommits
  /\ fnCommits' = Append(fnCommits, c)
  /\ fnPayload' = getPullRequestPayload(fnVersion, fnCommits', Username)
  /\ UNCHANGED <<fnVersion, fnName, runVars, fnCommits2, fnName2, fnRef,
                 fetch, bySha, svcVars>>

NextPayload == \E c \in PayloadPool : PayloadCommits(c)

SpecPayload == InitPayload /\ [][NextPayload]_vars

\* ------------------------------------------------------------------------
\* fetchCommitsByAuthor
\* ------------------------------------------------------------------------

RepoName == <<"k", "i", "b", "a", "n", "a">>

SourceBranch == <<"m", "a", "s", "t", "e", "r">>

\* options.author
Author == "sqren"

\* value of options.path when no path filter is set
NoPath == ""

\* options of fetchCommitsByAuthor: with or without options.all, with or
\* without a path filter
FetchOptions ==
  [repoName : {RepoName}, repoOwner : {RepoOwner},
   sourceBranch : {SourceBranch}, author : {Author},
   all : BOOLEAN, path : {NoPath, "src"}]

IsDigit(ch) == ch \in {"0", "1", "2", "3", "4", "5", "6", "7", "8", "9"}

\* firstMessageLine.match(/\(#(\d+)\)/): the digits of the first "(#",
\* digits, ")" in the text, from the left; <<>> when there is no match
MatchPullNumber(text) ==
  LET digitsAt(i) ==
        {j \in (i + 2)..(Len(text) - 1) :
           /\ \A k \in (i + 2)..j : IsDigit(text[k])
           /\ text[j + 1] = ")"}
      starts ==
        {i \in 1..(Len(text) - 3) :
           text[i] = "(" /\ text[i + 1] = "#" /\ digitsAt(i) /= {}}
  IN  IF starts = {} THEN <<>>
      ELSE LET i == CHOOSE x \in starts : \A y \in starts : x <= y
               j == CHOOSE x \in digitsAt(i) : TRUE
           IN  SubSeq(text, i + 2, j)

\* returns undefined (NoPullRequest) when the message does not match
getPullNumberFromMessage(firstMessageLine) ==
  LET matches == MatchPullNumber(firstMessageLine)
  IN  IF matches /= <<>> THEN ParseInt(matches) ELSE NoPullRequest

\* value of mergeCommit of a pull request that is not merged (null)
NoMergeCommit == <<>>

\* edge.node.associatedPullRequests.edges[0]?.node when there is no edge
NoNode ==
  [present |-> FALSE, number |-> 0, repoName |-> <<>>, repoOwner |-> <<>>,
   mergeCommit |-> NoMergeCommit, targetPullRequests |-> <<>>,
   labelBranches |-> <<>>]

\* a mutant of isSourcePullRequest: every associated pull request is used
isSourcePullRequest_AnyNode(pullRequestNode, options, sha) ==
  pullRequestNode.present

isSourcePullRequest(pullRequestNode, options, sha) ==
  /\ pullRequestNode.present
  /\ pullRequestNode.repoName = options.repoName
  /\ pullRequestNode.repoOwner = options.repoOwner
  /\ pullRequestNode.mergeCommit /= NoMergeCommit
  /\ pullRequestNode.mergeCommit = sha

\* the commit of one history edge.  targetPullRequests and labelBranches of
\* a node are what getExistingTargetPullRequests and
\* getTargetBranchesFromLabels return for it; formattedMessage is left out
CommitOfEdge(edge, options) ==
  LET commitMessage == edge.message
      sha == edge.oid
      pullRequestNode == edge.pullRequest
  IN  IF ~isSourcePullRequest(pullRequestNode, options, sha)
      THEN [sourceBranch |-> options.sourceBranch,
            targetBranchesFromLabels |-> <<>>,
            sha |-> sha,
            originalMessage |-> commitMessage,
            pullNumber |-> getPullNumberFromMessage(commitMessage),
            existingTargetPullRequests |-> <<>>]
      ELSE [sourceBranch |-> options.sourceBranch,
            targetBranchesFromLabels |-> pullRequestNode.labelBranches,
            sha |-> sha,
            originalMessage |-> commitMessage,
            pullNumber |-> pullRequestNode.number,
            existingTargetPullRequests |-> pullRequestNode.targetPullRequests]

HandledError(message) == [name |-> "HandledError", message |-> message]

\* a mutant of the error text: it is the same with and without options.all
EmptyHistoryError_NoAll(options) ==
  HandledError(<<"There are no commits by \"", options.author,
                 "\" in this repository">>)

\* the error of an empty history; the text is the sequence of its parts
\* (without the backquotes around the two flags)
EmptyHistoryError(options) ==
  LET pathText ==
        IF options.path /= NoPath
        THEN <<" touching files in path: \"", options.path, "\"">>
        ELSE <<>>
      errorText ==
        IF options.all
        THEN <<"There are no commits in this repository">> \o pathText
        ELSE <<"There are no commits by \"", options.author,
               "\" in this repository">> \o pathText \o
             <<". Try with ", "--all", " for commits by all users or ",
               "--author", "=<username> for commits from a specific user">>
  IN  HandledError(errorText)

NoFetchError == [name |-> "none", message |-> <<>>]

\* response.kind: the request fails ("rejected"), the source branch does
\* not exist ("noRef": res.repository.ref === null), or the history of the
\* source branch is returned ("history")
fetchCommitsByAuthor(options, response) ==
  IF response.kind = "rejected"
  THEN [settles |-> "rejected", commits |-> <<>>,
        error |-> [name |-> "Error", message |-> <<"request failed">>]]
  ELSE IF response.kind = "noRef"
  THEN [settles |-> "rejected", commits |-> <<>>,
        error |-> HandledError(
          <<"The upstream branch \"", "master", "\" does not exist. Try ",
            "specifying a different branch with ",
            "\"--source-branch <your-branch>\"">>)]
  ELSE LET commits ==
             [k \in DOMAIN response.edges |->
               CommitOfEdge(response.edges[k], options)]
       IN  IF commits = <<>>
           THEN [settles |-> "rejected", commits |-> <<>>,
                 error |-> EmptyHistoryError(options)]
           ELSE [settles |-> "resolved", commits |-> commits,
                 error |-> NoFetchError]

\* messages of the commits of the history: the reference of a pull request
\* at the end, two references, none, and one in the body of the message
FetchMessages ==
  {<<"f", "i", "x", " ", "(", "#", "1", "2", "3", ")">>,
   <<"R", "e", "v", "e", "r", "t", " ", "(", "#", "1", "2", ")", " ",
     "(", "#", "3", "4", ")">>,
   <<"f", "i", "x">>,
   <<"f", "i", "x", "\n", "\n", "s", "e", "e", " ", "(", "#", "4", "5", ")",
     " ", "t", "o", "o">>}

\* the first associated pull request of the commit with the given oid: none,
\* the pull request that was merged as this commit, a pull request of a
\* repository with another name, one of the fork of the user, one that was
\* merged as another commit, and one that is not merged
FetchNodes(oid) ==
  LET node == [present |-> TRUE, number |-> 1000, repoName |-> RepoName,
               repoOwner |-> RepoOwner, mergeCommit |-> oid,
               targetPullRequests |-> <<<<"6", ".", "x">>>>,
               labelBranches |-> <<<<"7", ".", "x">>>>]
  IN  {NoNode,
       node,
       [node EXCEPT !.repoName = <<"o", "t", "h", "e", "r">>],
       [node EXCEPT !.repoOwner = Username],
       [node EXCEPT !.mergeCommit = <<"o", "t", "h", "e", "r">>],
       [node EXCEPT !.mergeCommit = NoMergeCommit]}

\* fetchCommitsByAuthor(options), given the response to the query
Fetched(options, response) ==
  [options |-> options, response |-> response,
   result |-> fetchCommitsByAuthor(options, response)]

InitFetch ==
  /\ RunIdle
  /\ fnVersion = <<>>
  /\ fnCommits = <<>>
  /\ fnName = <<>>
  /\ fnCommits2 = <<>>
  /\ fnName2 = <<>>
  /\ fnPayload = NoPayload
  /\ fnRef = <<>>
  /\ \E options \in FetchOptions, kind \in {"rejected", "noRef", "history"} :
       fetch = Fetched(options, [kind |-> kind, edges |-> <<>>])
  /\ bySha = <<>>
  /\ SvcIdle

\* oid of the next commit of the history
NextOid ==
  <<"m", "y", "S", "h", "a">> \o NumberToString(Len(fetch.response.edges) + 1)

\* the history of the source branch has one more commit
HistoryEdge(message, node) ==
  /\ fetch.response.kind = "history"
  /\ Len(fetch.response.edges) < MaxHistory
  /\ fetch' =
       Fetched(fetch.options,
               [kind |-> "history",
                edges |-> Append(fetch.response.edges,
                                 [oid |-> NextOid, message |-> message,
                                  pullRequest |-> node])])
  /\ UNCHANGED <<fnVersion, fnCommits, fnName, runVars, fnCommits2,
                 fnName2, fnPayload, fnRef, bySha, svcVars>>

NextFetch ==
  \E message \in FetchMessages, node \in FetchNodes(NextOid) :
    HistoryEdge(message, node)

SpecFetch == InitFetch /\ [][NextFetch]_vars

\* ------------------------------------------------------------------------
\* getCommitBySha
\* ------------------------------------------------------------------------

\* the k-th commit that can be on the source branch
SourceCommit(k) ==
  [sha |-> <<"m", "y", "S", "h", "a">> \o NumberToString(k),
   message |-> <<"f", "i", "x">> \o NumberToString(k)]

\* github.getCommit(owner, repoName, sha): the commits with that hash are
\* searched; the first is the result, and without one the call is rejected
\* with: No commit found on master with sha "<sha>"
getCommit(commits, sha) ==
  LET items == {c \in commits : c.sha = sha}
  IN  IF items = {}
      THEN [settles |-> "rejected", commit |-> <<>>,
            error |->
              [name |-> "HandledError",
               message |->
                 <<"N", "o", " ", "c", "o", "m", "m", "i", "t", " ", "f", "o",
                   "u", "n", "d", " ", "o", "n", " ">> \o SourceBranch \o
                 <<" ", "w", "i", "t", "h", " ", "s", "h", "a", " ", "\"">> \o
                 sha \o <<"\"">>]]
      ELSE [settles |-> "resolved", commit |-> CHOOSE c \in items : TRUE,
            error |-> [name |-> "none", message |-> <<>>]]

\* a mutant of getCommitBySha: the catch does not throw the error again,
\* and the list of what was found is returned
getCommitBySha_Swallow(commits, sha) ==
  LET found == getCommit(commits, sha)
  IN  [settles |-> "resolved",
       commits |-> IF found.settles = "rejected" THEN <<>>
                   ELSE <<found.commit>>,
       error |-> [name |-> "none", message |-> <<>>]]

\* getCommit(...).catch(e => { throw e }).then(commit => [commit])
getCommitBySha(commits, sha) ==
  LET found == getCommit(commits, sha)
  IN  IF found.settles = "rejected"
      THEN [settles |-> "rejected", commits |-> <<>>, error |-> found.error]
      ELSE [settles |-> "resolved", commits |-> <<found.commit>>,
            error |-> found.error]

\* getCommitBySha({owner, repoName, sha}), given the commits of the source
\* branch
LookedUp(commits, sha) ==
  [commits |-> commits, sha |-> sha, result |-> getCommitBySha(commits, sha)]

InitBySha ==
  /\ RunIdle
  /\ fnVersion = <<>>
  /\ fnCommits = <<>>
  /\ fnName = <<>>
  /\ fnCommits2 = <<>>
  /\ fnName2 = <<>>
  /\ fnPayload = NoPayload
  /\ fnRef = <<>>
  /\ fetch = <<>>
  /\ \E k \in 1..MaxSourceCommits : bySha = LookedUp({}, SourceCommit(k).sha)
  /\ SvcIdle

\* the k-th commit is on the source branch when the commit is looked up
SourceBranchHas(k) ==
  /\ SourceCommit(k) \notin bySha.commits
  /\ bySha' = LookedUp(bySha.commits \cup {SourceCommit(k)}, bySha.sha)
  /\ UNCHANGED <<fnVersion, fnCommits, fnName, runVars, fnCommits2,
                 fnName2, fnPayload, fnRef, fetch, svcVars>>

NextBySha == \E k \in 1..MaxSourceCommits : SourceBranchHas(k)

SpecBySha == InitBySha /\ [][NextBySha]_vars

\* ------------------------------------------------------------------------
\* The git service: what its functions make of the outcome of exec
\* ------------------------------------------------------------------------

UpperCase ==
  <<"A", "B", "C", "D", "E", "F", "G", "H", "I", "J", "K", "L", "M", "N",
    "O", "P", "Q", "R", "S", "T", "U", "V", "W", "X", "Y", "Z">>

LowerCase ==
  <<"a", "b", "c", "d", "e", "f", "g", "h", "i", "j", "k", "l", "m", "n",
    "o", "p", "q", "r", "s", "t", "u", "v", "w", "x", "y", "z">>

\* String.prototype.toLowerCase()
ToLowerCase(text) ==
  [k \in DOMAIN text |->
    IF \E n \in DOMAIN UpperCase : UpperCase[n] = text[k]
    THEN LowerCase[CHOOSE n \in DOMAIN UpperCase : UpperCase[n] = text[k]]
    ELSE text[k]]

\* String.prototype.includes(sub)
StringIncludes(text, sub) == IndexOf(text, sub) /= -1

\* exit codes of a failed git command: an error, a fatal error, wrong usage
ExitCodes == {1, 128, 129}

\* exec resolved
ExecOk == [ok |-> TRUE, code |-> 0, stderr |-> <<>>]

\* exec rejected with the Error e: e.code is the exit code, e.stderr what
\* was written to stderr, here as the list of its lines
ExecFailed(code, lines) ==
  [ok |-> FALSE, name |-> "Error", code |-> code, stderr |-> lines]

\* e.stderr as one string
StderrText(e) == Join(e.stderr, <<"\n">>)

\* lines git writes to stderr
StderrLines ==
  {<<"f", "a", "t", "a", "l", ":", " ", "c", "o", "u", "l", "d", "n", "'",
     "t", " ", "f", "i", "n", "d", " ", "r", "e", "m", "o", "t", "e", " ",
     "r", "e", "f", " ", "6", ".", "x">>,
   <<"f", "a", "t", "a", "l", ":", " ", "C", "o", "u", "l", "d", "n", "'",
     "t", " ", "f", "i", "n", "d", " ", "r", "e", "m", "o", "t", "e", " ",
     "r", "e", "f", " ", "6", ".", "x">>,
   <<"f", "a", "t", "a", "l", ":", " ", "I", "n", "v", "a", "l", "i", "d",
     " ", "r", "e", "f", "s", "p", "e", "c", " ", "'", "6", ".", "x", "'">>,
   <<"e", "r", "r", "o", "r", ":", " ", "c", "a", "n", "n", "o", "t", " ",
     "l", "o", "c", "k", " ", "r", "e", "f">>}

\* the promise of a service function while exec has not settled
Pending == [settles |-> "pending", error |-> NoError]

\* the promise of a service function that returned
Resolved == [settles |-> "resolved", error |-> NoError]

\* the promise of a service function that threw the error e of exec
Rethrown(e) == [settles |-> "rejected", error |-> e]

InvalidBranchNeedles ==
  <<<<"c", "o", "u", "l", "d", "n", "'", "t", " ", "f", "i", "n", "d", " ",
      "r", "e", "m", "o", "t", "e", " ", "r", "e", "f">>,
    <<"I", "n", "v", "a", "l", "i", "d", " ", "r", "e", "f", "s", "p", "e",
      "c">>>>

createFeatureBranch(outcome, baseBranch) ==
  IF outcome.ok THEN Resolved
  ELSE LET e == outcome
           isBranchInvalid ==
             \/ StringIncludes(ToLowerCase(StderrText(e)),
                               InvalidBranchNeedles[1])
             \/ StringIncludes(ToLowerCase(StderrText(e)),
                               InvalidBranchNeedles[2])
       IN  IF isBranchInvalid
           THEN [settles |-> "rejected",
                 error |->
                   HandledError(
                      <<"T", "h", "e", " ", "b", "r", "a", "n", "c", "h", " ",
                        "\"">> \o
                      baseBranch \o
                      <<"\"", " ", "i", "s", " ", "i", "n", "v", "a", "l",
                        "i", "d", " ", "o", "r", " ", "d", "o", "e", "s", "n",
                        "'", "t", " ", "e", "x", "i", "s", "t">>)]
           ELSE Rethrown(e)

\* a mutant of cherrypickContinue: every failure is swallowed
cherrypickContinue_Swallow(outcome) == Resolved

cherrypickContinue(outcome) ==
  IF outcome.ok THEN Resolved
  ELSE LET e == outcome
           isCherrypickError == e.code = 128
       IN  IF isCherrypickError THEN Resolved ELSE Rethrown(e)

\* the base branches a feature branch is created from
BaseBranches == {<<"6", ".", "x">>, <<"m", "a", "s", "t", "e", "r">>}

GitFunctions == {"createFeatureBranch", "cherrypickContinue"}

\* what the called function makes of the outcome of its command
GitResult(fn, outcome, baseBranch) ==
  IF fn = "createFeatureBranch"
  THEN createFeatureBranch(outcome, baseBranch)
  ELSE cherrypickContinue(outcome)

\* a function of the service was called and its command is running
InitGit ==
  /\ RunIdle
  /\ fnVersion = <<>>
  /\ fnCommits = <<>>
  /\ fnName = <<>>
  /\ fnCommits2 = <<>>
  /\ fnName2 = <<>>
  /\ fnPayload = NoPayload
  /\ fnRef = <<>>
  /\ fetch = <<>>
  /\ bySha = <<>>
  /\ setup = <<>>
  /\ lookup = <<>>
  /\ \E fn \in GitFunctions, baseBranch \in BaseBranches :
       git = [fn |-> fn,
              baseBranch |-> IF fn = "createFeatureBranch"
                             THEN baseBranch ELSE <<>>,
              exec |-> "running",
              stderr |-> <<>>,
              outcome |-> ExecOk,
              result |-> Pending]

gitOtherVars ==
  <<fnVersion, fnCommits, fnName, runVars, fnCommits2, fnName2, fnPayload,
    fnRef, fetch, bySha, setup, lookup>>

\* the running command writes a line to stderr
StderrLine(line) ==
  /\ git.exec = "running"
  /\ Len(git.stderr) < MaxStderrLines
  /\ git' = [git EXCEPT !.stderr = Append(@, line)]
  /\ UNCHANGED gitOtherVars

\* the command exits with code 0: exec resolves and the function goes on
ExecResolves ==
  /\ git.exec = "running"
  /\ git' = [git EXCEPT !.exec = "exited",
                        !.outcome = ExecOk,
                        !.result = GitResult(git.fn, ExecOk, git.baseBranch)]
  /\ UNCHANGED gitOtherVars

\* the command exits with another code: exec rejects and the catch block of
\* the function runs
ExecRejects(code) ==
  /\ git.exec = "running"
  /\ LET e == ExecFailed(code, git.stderr)
     IN  git' = [git EXCEPT !.exec = "exited",
                           !.outcome = e,
                           !.result = GitResult(git.fn, e, git.baseBranch)]
  /\ UNCHANGED gitOtherVars

NextGit ==
  \/ \E line \in StderrLines : StderrLine(line)
  \/ ExecResolves
  \/ \E code \in ExitCodes : ExecRejects(code)

SpecGit == InitGit /\ [][NextGit]_vars

\* ------------------------------------------------------------------------
\* maybeSetupRepo: the clone of the first run and the remotes of every run
\* ------------------------------------------------------------------------

\* the remote a clone comes with
Origin == <<"o", "r", "i", "g", "i", "n">>

\* options.username: the user works on a fork or is the repository owner
Usernames == {Username, RepoOwner}

\* failures of the commands; the text stands for what is in stderr
NoSuchRemote == ExecFailed(128, <<"fatal: No such remote">>)

NotARepository == ExecFailed(128, <<"fatal: not a git repository">>)

CommandNotFound == ExecFailed(127, <<"git: not found">>)

AlreadyExists == ExecFailed(128, <<"fatal: remote already exists">>)

CloneFailed == ExecFailed(128, <<"fatal: unable to access">>)

\* a failure of the file system (stat, make-dir, del), by its errno
FsFailed == ExecFailed(13, <<"EACCES: permission denied">>)

\* no error was caught or thrown
NoFailure == [ok |-> TRUE, name |-> "none", code |-> 0, stderr |-> <<>>]

\* what "git remote rm name" can do in a repository with these remotes
RemoteRmOutcomes(name, remotes) ==
  (IF name \in remotes THEN {ExecOk} ELSE {NoSuchRemote})
    \cup {NotARepository, CommandNotFound}

\* what "git remote add name url" can do in a repository with these remotes
RemoteAddOutcomes(name, remotes) ==
  (IF name \in remotes THEN {AlreadyExists} ELSE {ExecOk})
    \cup {NotARepository, CommandNotFound}

deleteRemote(outcome) ==
  IF outcome.ok THEN Resolved
  ELSE LET e == outcome
           isExecError == e.code = 128
       IN  IF ~isExecError THEN Rethrown(e) ELSE Resolved

\* addRemote swallows every error of its command
addRemote(outcome) == Resolved

\* folderExists: stat says whether the path is a directory, and ENOENT
\* means that it is not there
repoExists(folder) == folder

\* if (!isAlreadyCloned) { ... }
AfterRepoExists(isAlreadyCloned) ==
  IF ~isAlreadyCloned THEN "makeDir" ELSE "deleteUser"

\* a mutant of the step after the remote of the user: the remote of the
\* repository owner is always set up
AfterAddUser_Always(username) == "deleteOwner"

\* if (options.username !== options.repoOwner) { ... }
AfterAddUser(username) ==
  IF username /= RepoOwner THEN "deleteOwner" ELSE "resolved"

\* the remote the step is about
RemoteOf(pc, username) ==
  CASE pc = "deleteOrigin" -> Origin
    [] pc \in {"deleteUser", "addUser"} -> username
    [] pc \in {"deleteOwner", "addOwner"} -> RepoOwner

\* the step after a deleteRemote or addRemote that resolved
AfterRemote(pc, username) ==
  CASE pc = "deleteOrigin" -> "deleteUser"
    [] pc = "deleteUser" -> "addUser"
    [] pc = "addUser" -> AfterAddUser(username)
    [] pc = "deleteOwner" -> "addOwner"
    [] pc = "addOwner" -> "resolved"

\* a call of the run and the outcome of its command
Call(fn, remoteName, outcome) ==
  [fn |-> fn, remoteName |-> remoteName, outcome |-> outcome]

\* maybeSetupRepo is called: nothing has run yet; prev are the calls of the
\* run before this one
StartSetup(username, run, folder, remotes, prev) ==
  [username |-> username,
   run |-> run,
   folder |-> folder,
   remotes |-> remotes,
   existed |-> folder,
   pc |-> "repoExists",
   isAlreadyCloned |-> FALSE,
   calls |-> <<>>,
   swallowed |-> <<>>,
   caught |-> NoFailure,
   error |-> NoFailure,
   prev |-> prev]

InitSetup ==
  /\ RunIdle
  /\ fnVersion = <<>>
  /\ fnCommits = <<>>
  /\ fnName = <<>>
  /\ fnCommits2 = <<>>
  /\ fnName2 = <<>>
  /\ fnPayload = NoPayload
  /\ fnRef = <<>>
  /\ fetch = <<>>
  /\ bySha = <<>>
  /\ git = <<>>
  /\ lookup = <<>>
  /\ \E username \in Usernames, folder \in BOOLEAN,
        remotes \in SUBSET {Username, RepoOwner} :
       /\ ~folder => remotes = {}
       /\ setup = StartSetup(username, 1, folder, remotes, <<>>)

setupOtherVars ==
  <<fnVersion, fnCommits, fnName, runVars, fnCommits2, fnName2, fnPayload,
    fnRef, fetch, bySha, git, lookup>>

\* const isAlreadyCloned = await repoExists(options)
RepoExistsResolves ==
  /\ setup.pc = "repoExists"
  /\ LET isAlreadyCloned == repoExists(setup.folder)
     IN  setup' = [setup EXCEPT
           !.isAlreadyCloned = isAlreadyCloned,
           !.calls = Append(@, Call("repoExists", <<>>, ExecOk)),
           !.pc = AfterRepoExists(isAlreadyCloned)]
  /\ UNCHANGED setupOtherVars

\* stat fails with another error than ENOENT: folderExists throws it
RepoExistsRejects ==
  /\ setup.pc = "repoExists"
  /\ setup' = [setup EXCEPT
       !.calls = Append(@, Call("repoExists", <<>>, FsFailed)),
       !.error = FsFailed,
       !.pc = "rejected"]
  /\ UNCHANGED setupOtherVars

\* await makeDir(getRepoOwnerPath(options))
MakeDirSettles(outcome) ==
  /\ setup.pc = "makeDir"
  /\ setup' = [setup EXCEPT
       !.calls = Append(@, Call("makeDir", <<>>, outcome)),
       !.caught = IF outcome.ok THEN @ ELSE outcome,
       !.pc = IF outcome.ok THEN "cloneRepo" ELSE "deleteRepo"]
  /\ UNCHANGED setupOtherVars

\* await cloneRepo(options, ...): a clone that fails can leave a folder
CloneRepoSettles(outcome, leftover) ==
  /\ setup.pc = "cloneRepo"
  /\ outcome.ok => leftover
  /\ setup' = [setup EXCEPT
       !.calls = Append(@, Call("cloneRepo", <<>>, outcome)),
       !.folder = leftover,
       !.remotes = IF outcome.ok THEN {Origin} ELSE {},
       !.caught = IF outcome.ok THEN @ ELSE outcome,
       !.pc = IF outcome.ok THEN "deleteOrigin" ELSE "deleteRepo"]
  /\ UNCHANGED setupOtherVars

\* await deleteRemote(options, remoteName): in the try block its error is
\* caught, after it the error is the error of the run
DeleteRemoteSettles(outcome) ==
  /\ setup.pc \in {"deleteOrigin", "deleteUser", "deleteOwner"}
  /\ LET remoteName == RemoteOf(setup.pc, setup.username)
         result == deleteRemote(outcome)
         thrown == result.settles = "rejected"
     IN  /\ outcome \in RemoteRmOutcomes(remoteName, setup.remotes)
         /\ setup' = [setup EXCEPT
              !.calls = Append(@, Call("deleteRemote", remoteName, outcome)),
              !.remotes = IF outcome.ok THEN @ \ {remoteName} ELSE @,
              !.swallowed =
                IF ~outcome.ok /\ ~thrown
                THEN Append(@, Call("deleteRemote", remoteName, outcome))
                ELSE @,
              !.caught =
                IF thrown /\ setup.pc = "deleteOrigin"
                THEN result.error ELSE @,
              !.error =
                IF thrown /\ setup.pc /= "deleteOrigin"
                THEN result.error ELSE @,
              !.pc =
                IF ~thrown THEN AfterRemote(setup.pc, setup.username)
                ELSE IF setup.pc = "deleteOrigin" THEN "deleteRepo"
                ELSE "rejected"]
  /\ UNCHANGED setupOtherVars

\* await addRemote(options, remoteName)
AddRemoteSettles(outcome) ==
  /\ setup.pc \in {"addUser", "addOwner"}
  /\ LET remoteName == RemoteOf(setup.pc, setup.username)
         result == addRemote(outcome)
         thrown == result.settles = "rejected"
     IN  /\ outcome \in RemoteAddOutcomes(remoteName, setup.remotes)
         /\ setup' = [setup EXCEPT
              !.calls = Append(@, Call("addRemote", remoteName, outcome)),
              !.remotes = IF outcome.ok THEN @ \cup {remoteName} ELSE @,
              !.swallowed =
                IF ~outcome.ok /\ ~thrown
                THEN Append(@, Call("addRemote", remoteName, outcome))
                ELSE @,
              !.error = IF thrown THEN result.error ELSE @,
              !.pc = IF ~thrown THEN AfterRemote(setup.pc, setup.username)
                     ELSE "rejected"]
  /\ UNCHANGED setupOtherVars

\* catch (e) { await deleteRepo(options); throw e; }: when del rejects,
\* its error is thrown and not e
DeleteRepoSettles(outcome) ==
  /\ setup.pc = "deleteRepo"
  /\ setup' = [setup EXCEPT
       !.calls = Append(@, Call("deleteRepo", <<>>, outcome)),
       !.folder = IF outcome.ok THEN FALSE ELSE @,
       !.remotes = IF outcome.ok THEN {} ELSE @,
       !.error = IF outcome.ok THEN setup.caught ELSE outcome,
       !.pc = "rejected"]
  /\ UNCHANGED setupOtherVars

\* the program is started again on the same repository folder
RunAgain ==
  /\ setup.pc \in {"resolved", "rejected"}
  /\ setup.run < MaxRuns
  /\ setup' = StartSetup(setup.username, setup.run + 1, setup.folder,
                         setup.remotes, setup.calls)
  /\ UNCHANGED setupOtherVars

NextSetup ==
  \/ RepoExistsResolves
  \/ RepoExistsRejects
  \/ \E outcome \in {ExecOk, FsFailed} : MakeDirSettles(outcome)
  \/ \E outcome \in {ExecOk, CloneFailed, CommandNotFound},
        leftover \in BOOLEAN : CloneRepoSettles(outcome, leftover)
  \/ \E outcome \in {ExecOk, NoSuchRemote, NotARepository, CommandNotFound} :
       DeleteRemoteSettles(outcome)
  \/ \E outcome \in {ExecOk, AlreadyExists, NotARepository, CommandNotFound} :
       AddRemoteSettles(outcome)
  \/ \E outcome \in {ExecOk, FsFailed} : DeleteRepoSettles(outcome)
  \/ RunAgain

SpecSetup == InitSetup /\ [][NextSetup]_vars

\* ------------------------------------------------------------------------
\* withPullRequest: the commit objects it is given and the ones it returns
\* ------------------------------------------------------------------------

\* a mutant of the target of Object.assign: the commit itself
AssignTarget_InPlace(commit, fresh) == commit

\* the first argument of Object.assign({}, commit, { pullRequest }): a new
\* object
AssignTarget(commit, fresh) == fresh

\* Object.assign(target, commit, { pullRequest }) on a heap of objects,
\* where target is the next free reference or an object of the heap: the
\* properties of commit and pullRequest are written to target
ObjectAssign(heap, target, commit, pullRequest) ==
  LET assigned == [sha |-> heap[commit].sha,
                   message |-> heap[commit].message,
                   pullRequest |-> pullRequest]
  IN  IF target = Len(heap) + 1 THEN Append(heap, assigned)
      ELSE [heap EXCEPT ![target] = assigned]

\* Promise.all(promises): the values in the order of the promises
PromiseAll(values, done) == values

\* the handler of a version before sequentially calls it
InitLookupTask ==
  [pc |-> "NotStarted",
   promise |-> "unstarted",
   received |-> <<>>,          \* the commits the handler was called with
   pending |-> {},             \* getPullRequestByCommit calls in flight
   done |-> <<>>,              \* the calls that resolved, as they resolved
   values |-> [i \in CommitIds |-> 0], \* what their promises resolved with
   result |-> <<>>]            \* commitsWithPullRequest

\* doBackportVersions({ commits, versions, ... }): the commits are the
\* first objects of the heap
InitLookup ==
  /\ RunIdle
  /\ fnVersion = <<>>
  /\ fnCommits = <<>>
  /\ fnName = <<>>
  /\ fnCommits2 = <<>>
  /\ fnName2 = <<>>
  /\ fnPayload = NoPayload
  /\ fnRef = <<>>
  /\ fetch = <<>>
  /\ bySha = <<>>
  /\ git = <<>>
  /\ setup = <<>>
  /\ lookup = [heap |-> Commits,
               commits |-> [i \in CommitIds |-> i],
               tasks |-> [t \in Tasks |-> InitLookupTask]]

lookupOtherVars ==
  <<fnVersion, fnCommits, fnName, runVars, fnCommits2, fnName2, fnPayload,
    fnRef, fetch, bySha, git, setup>>

LookupPromises == [t \in Tasks |-> lookup.tasks[t].promise]

\* sequentially calls the handler of version t, which calls
\* withPullRequest(owner, repoName, commits): commits.map issues one
\* getPullRequestByCommit call per commit
CallWithPullRequest(t) ==
  /\ lookup.tasks[t].pc = "NotStarted"
  /\ SeqReady(LookupPromises, t)
  /\ lookup' = [lookup EXCEPT !.tasks[t] =
       [@ EXCEPT !.pc = "Lookup", !.promise = "pending",
                 !.received = lookup.commits,
                 !.pending = DOMAIN lookup.commits]]
  /\ UNCHANGED lookupOtherVars

\* getPullRequestByCommit resolves for the i-th commit and its then
\* callback runs; after the last one Promise.all resolves and
\* doBackportVersion is called with the result
PullRequestFound(t, i) ==
  /\ i \in lookup.tasks[t].pending
  /\ LET rec == lookup.tasks[t]
         commit == rec.received[i]
         target == AssignTarget(commit, Len(lookup.heap) + 1)
         values == [rec.values EXCEPT ![i] = target]
         done == Append(rec.done, i)
         settled == [rec EXCEPT !.pending = @ \ {i}, !.values = values,
                                !.done = done]
     IN  lookup' = [lookup EXCEPT
           !.heap = ObjectAssign(@, target, commit, PullRequestOf(i)),
           !.tasks[t] =
             IF rec.pc = "Lookup" /\ Len(done) = Len(rec.received)
             THEN [settled EXCEPT !.result = PromiseAll(values, done),
                                  !.pc = "Backport"]
             ELSE settled]
  /\ UNCHANGED lookupOtherVars

\* getPullRequestByCommit rejects for the i-th commit: Promise.all rejects
\* and .catch(handleErrors) settles the handler
PullRequestFails(t, i, e) ==
  /\ i \in lookup.tasks[t].pending
  /\ lookup' = [lookup EXCEPT !.tasks[t] =
       IF @.pc = "Lookup"
       THEN [@ EXCEPT !.pending = @ \ {i}, !.pc = "Failed",
                      !.promise = handleErrors(e).settles]
       ELSE [@ EXCEPT !.pending = @ \ {i}]]
  /\ UNCHANGED lookupOtherVars

\* doBackportVersion settles: .then(res => console.log(...)) or
\* .catch(handleErrors) settles the handler
BackportSettles(t, e) ==
  /\ lookup.tasks[t].pc = "Backport"
  /\ lookup' = [lookup EXCEPT !.tasks[t] =
       [@ EXCEPT !.pc = IF e = NoError THEN "Done" ELSE "Failed",
                 !.promise = IF e = NoError THEN "resolved"
                             ELSE handleErrors(e).settles]]
  /\ UNCHANGED lookupOtherVars

NextLookup ==
  \E t \in Tasks :
    \/ CallWithPullRequest(t)
    \/ \E i \in CommitIds : PullRequestFound(t, i)
    \/ \E i \in CommitIds, e \in ApiErrors : PullRequestFails(t, i, e)
    \/ \E e \in ApiErrors \cup {NoError} : BackportSettles(t, e)

SpecLookup == InitLookup /\ [][NextLookup]_vars

\* ------------------------------------------------------------------------
\* Properties
\* ------------------------------------------------------------------------

Terminal(t) == task[t].pc \in {"Done", "Failed"}

Active(t) == task[t].pc \notin {"NotStarted", "Done", "Failed"}

RECURSIVE Sum(_)
Sum(counts) == IF counts = <<>> THEN 0 ELSE Head(counts) + Sum(Tail(counts))

\* calls of the task of target t that change the working copy
WorkingCopyCalls(t) ==
  task[t].resetCalls + task[t].checkoutCalls + Sum(task[t].pickCalls) +
  task[t].pushCalls

\* calls of the task of target t that write to GitHub
ApiWriteCalls(t) == task[t].prCalls + task[t].labelCalls

\* C1: a failed task never prevents the task of the next target branch from
\* running: the promise of a failed task's handler is resolved, and the
\* next task has started or can start.
C1_FailureDoesNotBlock ==
  \A t \in Tasks :
    task[t].pc = "Failed" =>
      /\ task[t].promise = "resolved"
      /\ t < MaxVersions =>
           (task[t + 1].pc /= "NotStarted" \/ ENABLED StartTask(t + 1))

\* C1 witness: the first target failed in branch setup (invalid branch), the
\* second one is done and its pull request was created.
C1_Witness ==
  /\ task[1].pc = "Failed"
  /\ task[1].failedIn = "BranchSetup"
  /\ task[1].error.cause = "invalidBranch"
  /\ task[2].pc = "Done"
  /\ task[2].prCalls = 1
  /\ task[2].res = NewPullNumber(2)
  /\ Cardinality({t \in 1..2 : task[t].pc = "Failed"}) = 1
  /\ Cardinality({t \in 1..2 : task[t].pc = "Done"}) = 1

\* C2: at most one task is between its start and its terminal state; a task
\* has started only if the task of the previous target is Done or Failed;
\* a task that made a working-copy call has only terminated tasks before it.
C2_TasksDoNotOverlap ==
  /\ Cardinality({t \in Tasks : Active(t)}) <= 1
  /\ \A t \in Tasks : t > 1 /\ task[t].pc /= "NotStarted" => Terminal(t - 1)
  /\ \A t \in Tasks :
       WorkingCopyCalls(t) > 0 /\ ~Terminal(t) =>
         \A u \in Tasks : u /= t => (Terminal(u) <=> u < t)

\* C2 witness: the second task is pushing after the first one terminated
\* having changed the working copy.
C2_Witness ==
  /\ Terminal(1)
  /\ WorkingCopyCalls(1) > 0
  /\ task[2].pc = "Push"

\* C3: the phases of a task occur in the order branch setup, cherry-picking,
\* push, pull request creation, labels; push and pull request creation
\* happen at most once.
C3_PhaseOrder ==
  \A t \in Tasks :
    /\ Sum(task[t].pickCalls) > 0 =>
         /\ task[t].resetCalls = 1
         /\ task[t].checkoutCalls = 1
         /\ task[t].pc \notin {"Lookup", "Reset", "Checkout"}
         /\ task[t].failedIn /= "BranchSetup"
    /\ task[t].pushCalls > 0 =>
         \A i \in CommitIds : task[t].pick[i] = "resolved"
    /\ task[t].prCalls > 0 =>
         /\ task[t].pushCalls = 1
         /\ task[t].pushed = task[t].branch
         /\ task[t].failedIn /= "Push"
    /\ task[t].labelCalls > 0 =>
         /\ task[t].prCalls = 1
         /\ task[t].res /= 0
         /\ task[t].labelled = task[t].res
    /\ task[t].pushCalls <= 1
    /\ task[t].prCalls <= 1

\* C3 witness: a task went through all phases, labels included.
C3_Witness ==
  \E t \in Tasks :
    /\ task[t].pc = "Done"
    /\ task[t].labelCalls = 1
    /\ task[t].prCalls = 1
    /\ task[t].pushCalls = 1

ExpectedLabelCalls == IF Len(labels) > 0 THEN 1 ELSE 0

\* C5: while a conflict is resolved the user was prompted once for the
\* conflict and once more for every check that found the index dirty; when
\* the check finds the index clean after N dirty ones the user was prompted
\* N + 1 times and the task goes on (it is not failed by that step); a task
\* that completes made exactly one pull request creation call and, when
\* labels are configured, exactly one labels call.
C5_ConflictResolved ==
  /\ [](\A t \in Tasks :
          /\ \A i \in CommitIds :
               task[t].pick[i] \in {"prompt", "check"} =>
                 task[t].prompts = task[t].dirty + 1
          /\ task[t].lastCheck = "clean" =>
               task[t].prompts = task[t].dirty + 1
          /\ task[t].pc = "Done" =>
               /\ task[t].prCalls = 1
               /\ task[t].labelCalls = ExpectedLabelCalls)
  /\ [][\A t \in Tasks : \A i \in CommitIds :
          task[t].pick[i] = "check" /\ task'[t].pick[i] = "resolved" =>
            /\ task'[t].lastCheck = "clean"
            /\ task'[t].prompts = task'[t].dirty + 1
            /\ task'[t].pc = "CherryPicking"]_vars

\* C5 witness: a task is done after a conflict with N = MaxDirty dirty
\* confirmations and a clean one, with N + 1 prompts, one pull request
\* creation call and one labels call.
C5_Witness ==
  \E t \in Tasks :
    /\ task[t].pc = "Done"
    /\ task[t].lastCheck = "clean"
    /\ task[t].dirty = MaxDirty
    /\ task[t].dirty >= 1
    /\ task[t].prompts = MaxDirty + 1
    /\ task[t].prCalls = 1
    /\ task[t].labelCalls = 1

C7_OnlyConflictsPrompt ==
  \A t \in Tasks :
    /\ \A i \in CommitIds :
         task[t].pick[i] \in {"prompt", "check"} => task[t].pickErr = "conflict"
    /\ task[t].pickErr = "fetchFailed" =>
         /\ task[t].pc = "Failed"
         /\ task[t].prompts = 0

C9_LabelFailureDoesNotFail ==
  \A t \in Tasks : task[t].res /= 0 => task[t].pc /= "Failed"

\* C10: the branch name is "backport/" <target> "/" <refs>; <refs> is at
\* most 200 characters long, it is the start of the short references joined
\* by "_", and all of them when they are at most 200 characters long.
C10_BranchName ==
  LET prefix == BackportPrefix \o fnVersion \o <<"/">>
      refs == SubSeq(fnName, Len(prefix) + 1, Len(fnName))
      joined == JoinedShortRefs(fnCommits)
  IN  /\ Len(fnName) >= Len(prefix)
      /\ SubSeq(fnName, 1, Len(prefix)) = prefix
      /\ Len(refs) <= 200
      /\ Len(refs) <= Len(joined)
      /\ refs = SubSeq(joined, 1, Len(refs))
      /\ Len(joined) <= 200 => refs = joined
      /\ Len(joined) > 200 => Len(refs) = 200

\* C10 witness: the joined references are longer than 200 characters and the
\* name holds the first 200 of them.
C10_Witness ==
  /\ Len(JoinedShortRefs(fnCommits)) > 200
  /\ Len(fnName) = Len(BackportPrefix) + Len(fnVersion) + 1 + 200

\* C11 (as stated): for one target branch, two commit lists that differ in
\* the pull request number or the short revision id of some commit, or in
\* the order or number of the commits, never get the same branch name.
CommitKeys(commits) ==
  [k \in DOMAIN commits |->
    [pullRequest |-> commits[k].pullRequest,
     shortSha |-> Slice(commits[k].sha, 0, ShortShaLen)]]

C11_Original ==
  CommitKeys(fnCommits) /= CommitKeys(fnCommits2) => fnName /= fnName2

ShortRefs(commits) ==
  [k \in DOMAIN commits |-> getReferenceShort(commits[k])]

\* C11 (amended): for one target branch, two commit lists whose sequences
\* of short references differ, and whose joined short references are both at
\* most 200 characters long, never get the same branch name.
C11_NamesDiffer ==
  (/\ ShortRefs(fnCommits) /= ShortRefs(fnCommits2)
   /\ Len(JoinedShortRefs(fnCommits)) <= 200
   /\ Len(JoinedShortRefs(fnCommits2)) <= 200)
  => fnName /= fnName2

\* two lists of three commits with the same commits in a different order
C11_Witness ==
  /\ Len(fnCommits) = 3
  /\ Len(fnCommits2) = 3
  /\ fnCommits[1] = fnCommits2[1]
  /\ fnCommits[2] = fnCommits2[3]
  /\ fnCommits[3] = fnCommits2[2]
  /\ ShortRefs(fnCommits) /= ShortRefs(fnCommits2)
  /\ fnName /= fnName2

\* C12: the references of a commit with a known pull request n are pr-<n>
\* and #<n>; those of a commit without one are commit-<id> and <id>, where
\* <id> is the first 7 characters of the revision id, or the whole revision
\* id when it is shorter.
C12_References ==
  LET commit == fnRef.commit
  IN  IF commit.pullRequest /= NoPullRequest
      THEN /\ SubSeq(fnRef.short, 1, 3) = <<"p", "r", "-">>
           /\ ParseInt(SubSeq(fnRef.short, 4, Len(fnRef.short))) =
                commit.pullRequest
           /\ Head(fnRef.long) = "#"
           /\ ParseInt(Tail(fnRef.long)) = commit.pullRequest
      ELSE /\ fnRef.short = <<"c", "o", "m", "m", "i", "t", "-">> \o fnRef.long
           /\ Len(fnRef.long) = IF Len(commit.sha) < 7 THEN Len(commit.sha) ELSE 7
           /\ fnRef.long = SubSeq(commit.sha, 1, Len(fnRef.long))

\* a commit without pull request whose revision id is longer than 7
C12_Witness ==
  /\ fnRef.commit.pullRequest = NoPullRequest
  /\ Len(fnRef.commit.sha) > 7
  /\ Len(fnRef.long) = 7
  /\ Len(fnRef.short) = 14

\* the commits' messages joined with " | "
JoinedMessages(commits) ==
  Join([k \in DOMAIN commits |-> commits[k].message], <<" ", "|", " ">>)

\* s starts with the string p
StartsWith(s, p) == Len(p) <= Len(s) /\ SubSeq(s, 1, Len(p)) = p

\* s ends with the string p
EndsWith(s, p) ==
  Len(p) <= Len(s) /\ SubSeq(s, Len(s) - Len(p) + 1, Len(s)) = p

\* C13: the title is "[<target>] " followed by the start of the commits'
\* messages joined with " | "; that part is at most 200 characters long and
\* has no newline character in it.
C13_Title ==
  LET prefix == <<"[">> \o fnVersion \o <<"]", " ">>
      joined == SubSeq(fnPayload.title, Len(prefix) + 1, Len(fnPayload.title))
  IN  /\ StartsWith(fnPayload.title, prefix)
      /\ StartsWith(JoinedMessages(fnCommits), joined)
      /\ Len(joined) <= 200
      /\ \A k \in DOMAIN joined : joined[k] /= "\n"

RECURSIVE Lines(_)
\* the lines of a text
Lines(text) ==
  LET i == IndexOf(text, <<"\n">>)
  IN  IF i = -1 THEN <<text>>
      ELSE <<SubSeq(text, 1, i)>> \o Lines(SubSeq(text, i + 2, Len(text)))

\* C14: below its first line the body has one line per commit, in the order
\* of the commits; the line of a commit whose message ends with its long
\* reference in parentheses is " - " followed by that message.
C14_Body ==
  LET lines == Lines(fnPayload.body)
  IN  /\ Len(lines) = 1 + Len(fnCommits)
      /\ \A k \in DOMAIN fnCommits :
           LET commit == fnCommits[k]
               ref == <<"(">> \o getReferenceLong(commit) \o <<")">>
           IN  /\ StartsWith(lines[k + 1], <<" ", "-", " ">>)
               /\ EndsWith(lines[k + 1], <<" ">> \o ref)
               /\ EndsWith(commit.message, ref)
                    => lines[k + 1] = <<" ", "-", " ">> \o commit.message

\* C15: the head of a pull request is "<owner>:<branch>", where <branch> is
\* the backport branch of the task, which was pushed, and <owner> is the
\* remote it was pushed to: the user with options.fork, else the owner of
\* the repository; the base is the target branch.
C15_HeadAndBase ==
  \A t \in Tasks :
    task[t].prCalls > 0 =>
      /\ task[t].payload.head = task[t].pushedTo \o <<":">> \o task[t].pushed
      /\ task[t].pushed = task[t].branch
      /\ task[t].pushed = getBackportBranchName(Versions[t], task[t].commits)
      /\ task[t].pushedTo = IF fork THEN Username ELSE RepoOwner
      /\ task[t].payload.base = Versions[t]

\* C16: the first associated pull request of a history entry is used (its
\* number, the target branches of its labels, its target pull requests) only
\* when its repository name, its repository owner and its merge commit are
\* those of the options and of the entry; else the commit has no target
\* branches and no target pull requests, and its pull number is read from
\* the message.
C16_SourcePullRequest ==
  \A k \in DOMAIN fetch.result.commits :
    LET edge == fetch.response.edges[k]
        node == edge.pullRequest
        commit == fetch.result.commits[k]
    IN  IF /\ node.present
           /\ node.repoName = fetch.options.repoName
           /\ node.repoOwner = fetch.options.repoOwner
           /\ node.mergeCommit = edge.oid
        THEN /\ commit.pullNumber = node.number
             /\ commit.targetBranchesFromLabels = node.labelBranches
             /\ commit.existingTargetPullRequests = node.targetPullRequests
        ELSE /\ commit.targetBranchesFromLabels = <<>>
             /\ commit.existingTargetPullRequests = <<>>
             /\ commit.pullNumber = getPullNumberFromMessage(edge.message)

\* a history with a commit whose pull request is used, after a commit whose
\* pull request belongs to the fork of the user
C16_Witness ==
  /\ fetch.result.settles = "resolved"
  /\ Len(fetch.result.commits) = 2
  /\ fetch.response.edges[1].pullRequest.repoOwner = Username
  /\ fetch.result.commits[1].existingTargetPullRequests = <<>>
  /\ fetch.result.commits[2].pullNumber = 1000
  /\ fetch.result.commits[2].targetBranchesFromLabels /= <<>>

\* the number of the "(#NNN)" a message ends with, if it ends with one
TrailingPullNumber(message) ==
  LET starts ==
        {i \in 1..(Len(message) - 3) :
           /\ message[i] = "("
           /\ message[i + 1] = "#"
           /\ message[Len(message)] = ")"
           /\ \A k \in (i + 2)..(Len(message) - 1) : IsDigit(message[k])}
  IN  IF starts = {} THEN NoPullRequest
      ELSE LET i == CHOOSE x \in starts : TRUE
           IN  ParseInt(SubSeq(message, i + 2, Len(message) - 1))

\* C17: the pull number of a commit whose pull request is not used is the
\* number of the "(#NNN)" at the end of its message, and there is none when
\* the message does not end with "(#NNN)".
C17_TrailingPullNumber ==
  \A k \in DOMAIN fetch.result.commits :
    LET edge == fetch.response.edges[k]
    IN  ~isSourcePullRequest(edge.pullRequest, fetch.options, edge.oid)
          => fetch.result.commits[k].pullNumber =
               TrailingPullNumber(edge.message)

\* the text has the part in it
HasPart(text, part) == \E k \in DOMAIN text : text[k] = part

\* C18: fetchCommitsByAuthor never resolves with an empty list; an empty
\* history is rejected with a HandledError whose text names the author and
\* suggests --all and --author exactly when options.all is not set, and
\* names the path exactly when options.path is set.
C18_EmptyHistory ==
  /\ fetch.result.settles = "resolved" => fetch.result.commits /= <<>>
  /\ (fetch.response.kind = "history" /\ fetch.response.edges = <<>>) =>
       LET text == fetch.result.error.message
       IN  /\ fetch.result.settles = "rejected"
           /\ fetch.result.error.name = "HandledError"
           /\ HasPart(text, fetch.options.author) <=> ~fetch.options.all
           /\ HasPart(text, "--all") <=> ~fetch.options.all
           /\ HasPart(text, "--author") <=> ~fetch.options.all
           /\ HasPart(text, "src") <=> fetch.options.path = "src"
           /\ HasPart(text, " touching files in path: \"")
                <=> fetch.options.path /= NoPath

\* an empty history for a run with options.all and a path filter
C18_Witness ==
  /\ fetch.response.kind = "history"
  /\ fetch.response.edges = <<>>
  /\ fetch.options.all
  /\ fetch.options.path = "src"
  /\ fetch.result.settles = "rejected"
  /\ Len(fetch.result.error.message) = 4

C20_ResumesAtNext ==
  \A t \in Tasks :
    task[t].lastCheck = "clean" =>
      /\ task[t].resetCalls = 1
      /\ task[t].checkoutCalls = 1
      /\ task[t].pc \notin {"NotStarted", "Lookup", "Reset", "Checkout"}
      /\ \A i \in CommitIds :
           /\ task[t].pickCalls[i] <= 1
           /\ task[t].pick[i] \notin {"prompt", "check"}
           /\ task[t].pick[i] = "resolved" =>
                /\ task[t].pickCalls[i] = 1
                /\ ~ENABLED StartCherrypick(t, i)
                /\ \A j \in 1..(i - 1) : task[t].pick[j] = "resolved"
      /\ task[t].pick[1] = "resolved"
      /\ (/\ task[t].pc = "CherryPicking"
          /\ \A i \in CommitIds : task[t].pick[i] \in {"resolved", "unstarted"})
         => \/ \E i \in CommitIds :
                 /\ task[t].pick[i] = "unstarted"
                 /\ \A j \in 1..(i - 1) : task[t].pick[j] = "resolved"
                 /\ ENABLED StartCherrypick(t, i)
            \/ /\ \A i \in CommitIds : task[t].pick[i] = "resolved"
               /\ ENABLED StartPush(t)

\* the conflict of the first commit was resolved and the cherry-pick of the
\* second commit is running
C20_Witness ==
  \E t \in Tasks :
    /\ MaxCommits >= 2
    /\ task[t].pc = "CherryPicking"
    /\ task[t].lastCheck = "clean"
    /\ task[t].pick[1] = "resolved"
    /\ task[t].pick[2] = "pending"
    /\ task[t].pickCalls[1] = 1
    /\ task[t].resetCalls = 1

\* C21: a task is pushed, and a commit that had a conflict counts as
\* cherry-picked, only when the last check of the index since the conflict
\* found it clean, never while it found it dirty; and with a user who keeps
\* confirming and an index that gets clean, the loop of prompt and check of
\* a commit ends.
C21_CleanBeforePush ==
  /\ [](\A t \in Tasks :
          /\ task[t].pushCalls > 0 => task[t].lastCheck /= "dirty"
          /\ task[t].lastCheck = "dirty" =>
               \E i \in CommitIds :
                 /\ task[t].pick[i] \in {"prompt", "check", "rejected"}
                 /\ task[t].pickCalls[i] = 1
                 /\ \A j \in CommitIds :
                      j > i => /\ task[t].pick[j] = "unstarted"
                               /\ task[t].pickCalls[j] = 0)
  /\ (\E t \in Tasks, i \in CommitIds : task[t].pick[i] \in {"prompt", "check"})
       ~> (\A t \in Tasks, i \in CommitIds :
             task[t].pick[i] \notin {"prompt", "check"})

\* a task is pushing after a conflict whose first check found the index
\* dirty and whose last check found it clean
C21_Witness ==
  \E t \in Tasks :
    /\ task[t].pc = "Push"
    /\ task[t].pushCalls = 1
    /\ task[t].dirty >= 1
    /\ task[t].lastCheck = "clean"

\* the command of the called function failed
GitFailed(fn) ==
  /\ git.fn = fn
  /\ git.exec = "exited"
  /\ ~git.outcome.ok

\* stderr names an invalid branch: it has one of the two texts in it, in
\* any letter case
NamesInvalidBranch(e) ==
  \E n \in DOMAIN InvalidBranchNeedles :
    StringIncludes(ToLowerCase(StderrText(e)),
                   ToLowerCase(InvalidBranchNeedles[n]))

\* C22: when its command fails, createFeatureBranch is rejected with a
\* HandledError that names the base branch if stderr has "couldn't find
\* remote ref" or "Invalid refspec" in it, in any letter case, and with the
\* error of the command itself otherwise.
C22_InvalidBranchHandled ==
  GitFailed("createFeatureBranch") =>
    /\ git.result.settles = "rejected"
    /\ IF NamesInvalidBranch(git.outcome)
       THEN /\ git.result.error.name = "HandledError"
            /\ StringIncludes(git.result.error.message, git.baseBranch)
       ELSE git.result.error = git.outcome

\* C24: cherrypickContinue resolves when its command succeeds or fails with
\* exit code 128, and is rejected with the error of the command itself when
\* the command fails with another exit code.
C24_ContinueTolerates128 ==
  (git.fn = "cherrypickContinue" /\ git.exec = "exited") =>
    IF git.outcome.ok \/ git.outcome.code = 128
    THEN git.result.settles = "resolved"
    ELSE /\ git.result.settles = "rejected"
         /\ git.result.error = git.outcome

C24_Witness ==
  /\ GitFailed("cherrypickContinue")
  /\ git.outcome.code = 128
  /\ git.outcome.stderr /= <<>>
  /\ git.result.settles = "resolved"

\* the call is a deleteRemote or an addRemote whose command failed
RemoteCallFailed(c) ==
  /\ c.fn \in {"deleteRemote", "addRemote"}
  /\ ~c.outcome.ok

\* the failures that remote setup is meant to go on after
ExpectedRemoteFailure(c) ==
  \/ c.fn = "deleteRemote" /\ c.outcome = NoSuchRemote
  \/ c.fn = "addRemote" /\ c.outcome = AlreadyExists

\* C23: the failures that deleteRemote and addRemote swallow are a "remote
\* not found" failure of deleteRemote and an "already exists" failure of
\* addRemote and no others; after any other failure of one of the two the
\* run does not go on and ends rejected with that failure.
C23_OnlyExpectedSwallowed ==
  /\ \A k \in DOMAIN setup.swallowed :
       ExpectedRemoteFailure(setup.swallowed[k])
  /\ \A k \in DOMAIN setup.calls :
       (RemoteCallFailed(setup.calls[k])
          /\ ~ExpectedRemoteFailure(setup.calls[k])) =>
         /\ k = Len(setup.calls) \/ setup.calls[k + 1].fn = "deleteRepo"
         /\ setup.pc = "rejected" => setup.error = setup.calls[k].outcome

\* the deleteRemote and addRemote calls of a run for other remotes than
\* origin, in the order they were made
RemoteSetupCalls(calls) ==
  LET IsRemoteSetup(c) ==
        c.fn \in {"deleteRemote", "addRemote"} /\ c.remoteName /= Origin
      made == SelectSeq(calls, IsRemoteSetup)
  IN  [k \in DOMAIN made |-> <<made[k].fn, made[k].remoteName>>]

\* C25: a run of maybeSetupRepo that resolved called deleteRemote and then
\* addRemote for the remote of the user, after that deleteRemote and then
\* addRemote for the remote of the repository owner exactly when the user
\* is not the repository owner, and made no other such call; a run that
\* found the repository folder never calls cloneRepo.
C25_RemotesRecreatedInOrder ==
  /\ setup.pc = "resolved" =>
       RemoteSetupCalls(setup.calls) =
         <<<<"deleteRemote", setup.username>>,
           <<"addRemote", setup.username>>>> \o
         (IF setup.username /= RepoOwner
          THEN <<<<"deleteRemote", RepoOwner>>, <<"addRemote", RepoOwner>>>>
          ELSE <<>>)
  /\ setup.existed =>
       \A k \in DOMAIN setup.calls : setup.calls[k].fn /= "cloneRepo"

\* C25 witness: a second run on the clone of the first run resolved for a
\* user who is not the repository owner, and both remotes are there
C25_Witness ==
  /\ setup.pc = "resolved"
  /\ setup.run = 2
  /\ setup.existed
  /\ setup.username /= RepoOwner
  /\ setup.remotes = {Username, RepoOwner}
  /\ \E k \in DOMAIN setup.prev : setup.prev[k].fn = "cloneRepo"

\* the call is a step of first-time setup
FirstTimeStep(c) ==
  \/ c.fn \in {"makeDir", "cloneRepo"}
  \/ c.fn = "deleteRemote" /\ c.remoteName = Origin

\* a step of first-time setup failed in these calls
FirstTimeSetupFailed(calls) ==
  \E k \in DOMAIN calls : FirstTimeStep(calls[k]) /\ ~calls[k].outcome.ok

\* C26: when a step of first-time setup (makeDir, cloneRepo, deleteRemote
\* of origin) fails, no remote is added, the run ends rejected with the
\* error of that step and without the repository folder, and the run after
\* it does not find the folder and clones again.
C26_FailedSetupCleansUp ==
  /\ \A k \in DOMAIN setup.calls :
       (FirstTimeStep(setup.calls[k]) /\ ~setup.calls[k].outcome.ok) =>
         /\ \A j \in DOMAIN setup.calls : setup.calls[j].fn /= "addRemote"
         /\ setup.pc /= "resolved"
         /\ setup.pc = "rejected" =>
              /\ setup.error = setup.calls[k].outcome
              /\ ~setup.folder
  /\ (FirstTimeSetupFailed(setup.prev) /\ setup.calls /= <<>>
        /\ setup.calls[1].outcome.ok) =>
       /\ ~setup.isAlreadyCloned
       /\ Len(setup.calls) > 1 => setup.calls[2].fn = "makeDir"

\* the objects of a list of references
Objects(refs) == [k \in DOMAIN refs |-> lookup.heap[refs[k]]]

\* C27: the commit list that was passed in and its objects never change,
\* what withPullRequest returns are new objects, as many as there are
\* commits and in their order whatever the order the lookups resolved in,
\* each with the properties of its commit and the pull request found for
\* it, and the handler of every target branch is given the same commits.
C27_CommitsNotMutated ==
  /\ lookup.commits = [i \in CommitIds |-> i]
  /\ Objects(lookup.commits) = Commits
  /\ \A t \in Tasks :
       LET rec == lookup.tasks[t]
       IN  /\ rec.pc /= "NotStarted" =>
                /\ rec.received = lookup.commits
                /\ Objects(rec.received) = Commits
           /\ rec.result /= <<>> =>
                /\ Len(rec.result) = Len(Commits)
                /\ \A k \in DOMAIN rec.result :
                     /\ \A j \in DOMAIN lookup.commits :
                          rec.result[k] /= lookup.commits[j]
                     /\ lookup.heap[rec.result[k]] =
                          [sha |-> Commits[k].sha,
                           message |-> Commits[k].message,
                           pullRequest |-> PullRequestOf(k)]

\* C27 witness: the lookups of the first target branch resolved in the
\* order of the commits, the ones of the second in the opposite order
C27_Witness ==
  /\ lookup.tasks[1].result /= <<>>
  /\ lookup.tasks[1].done = <<1, 2>>
  /\ lookup.tasks[2].result /= <<>>
  /\ lookup.tasks[2].done = <<2, 1>>

\* C28: a labels call is made only when labels are configured, only once
\* and only after createPullRequest resolved, and it is given the number of
\* the pull request that was just created; without labels a task that is
\* done made one call that writes to GitHub, the creation, and has its
\* response.
C28_LabelsAfterCreation ==
  \A t \in Tasks :
    /\ task[t].labelCalls > 0 =>
         /\ Len(labels) > 0
         /\ task[t].labelCalls = 1
         /\ task[t].prCalls = 1
         /\ task[t].pc \in {"AddLabels", "Done", "Failed"}
         /\ task[t].res = NewPullNumber(t)
         /\ task[t].labelled = task[t].res
    /\ task[t].labelCalls = 0 => task[t].labelled = 0
    /\ (Len(labels) = 0 /\ task[t].pc = "Done") =>
         /\ ApiWriteCalls(t) = 1
         /\ task[t].prCalls = 1
         /\ task[t].res = NewPullNumber(t)

\* C28 witness: with labels configured the second task is done and its
\* labels call was given the number of its own pull request
C28_Witness ==
  /\ Len(labels) > 0
  /\ task[2].pc = "Done"
  /\ task[2].labelCalls = 1
  /\ task[2].labelled = NewPullNumber(2)
  /\ task[1].labelled = NewPullNumber(1)

====
